---- MODULE Spec2Model ----
(***************************************************************************)
(* A model of locog: the ingestion handler, the per-IP rate limiter, the   *)
(* SQLite store, the WebSocket hub with its subscribers, the retention     *)
(* sweep and the query path.                                               *)
(*                                                                         *)
(* Text values (service, level, message, host, query parameters) are       *)
(* sequences of one-character strings, so that TrimSpace, LIKE and Atoi    *)
(* are computed character by character as the code computes them.         *)
(* Instants are integers; 0 is the zero time.Time.                         *)
(***************************************************************************)
EXTENDS Integers, Sequences, FiniteSets, TLC

\* ------------------------------------------------------------------ bounds

\* The clock of the model runs from BootTime to MaxTime; one tick is the
\* sweep interval (24 h).
MaxTime == 3
\* The instant the service starts at.
BootTime == 1

\* The ingestion requests in flight, the client identities they come from
\* and the WebSocket connections.
Reqs == {"r1", "r2"}
AllReqs == Reqs \cup {"r3", "r4"}
IPs == {"ipA", "ipB"}
AllIPs == IPs \cup {"ipC", "ipD"}
Subs == {"s1", "s2"}

\* ------------------------------------------------- program constants (scaled)

\* newIPRateLimiter(rate.Limit(100), 100): the burst, scaled to 1.
Burst == 1
\* make(chan []byte, 256) of wsClient.send, scaled to 1.
SendCap == 1
\* make(chan []byte, 256) of wsHub.broadcast, scaled to 1.
BroadcastCap == 1
\* 30*24*time.Hour of runCleanup, in ticks, scaled to 1.
RetentionTicks == 1
\* 24 * time.Hour of the ticker of cleanupRoutine, in ticks, scaled to 1.
SweepInterval == 1

\* ------------------------------------------------------------------- text

Range(f) == {f[i] : i \in DOMAIN f}

Whitespace == {" ", "\t", "\n"}

RECURSIVE TrimLeft(_)
TrimLeft(s) ==
    IF s = <<>> THEN s
    ELSE IF Head(s) \in Whitespace THEN TrimLeft(Tail(s)) ELSE s

RECURSIVE TrimRight(_)
TrimRight(s) ==
    IF s = <<>> THEN s
    ELSE IF s[Len(s)] \in Whitespace THEN TrimRight(SubSeq(s, 1, Len(s) - 1))
    ELSE s

\* strings.TrimSpace
TrimSpace(s) == TrimRight(TrimLeft(s))

\* --------------------------------------------------------------- requests

S_api == <<"a", "p", "i">>
S_web == <<"w", "e", "b">>
S_INFO == <<"I", "N", "F", "O">>
S_ERROR == <<"E", "R", "R">>
S_h1 == <<"h", "1">>
S_blank == <<" ">>

\* models.Log as decoded from the request (Timestamp 0: absent; ID 0: no
\* "id" in the payload).
MkLog(ts, svc, lvl, msg, host) ==
    [ID |-> 0, Timestamp |-> ts, Service |-> svc, Level |-> lvl,
     Message |-> msg, Host |-> host]

\* The entry of a payload that has an "id".
WithID(l, id) == [l EXCEPT !.ID = id]

\* The request bodies a client sends.
BodyInvalid == [kind |-> "invalid"]
BodySingle ==
    [kind |-> "object", log |-> MkLog(1, S_api, S_ERROR, <<"m", "1">>, S_h1)]
BodyBatch ==
    [kind |-> "array",
     logs |-> << MkLog(1, S_web, S_INFO, <<"m", "2">>, S_h1),
                 MkLog(0, S_api, S_INFO, <<"m", "3">>, <<>>) >>]
BodyBadSecond ==
    [kind |-> "array",
     logs |-> << MkLog(0, S_api, S_INFO, <<"m", "4">>, S_h1),
                 MkLog(1, S_api, S_blank, <<"m", "5">>, S_h1) >>]
BodyEmpty == [kind |-> "array", logs |-> <<>>]

Bodies == {BodyInvalid, BodySingle, BodyBatch, BodyBadSecond, BodyEmpty}

\* json.Unmarshal into []models.Log, then into a single models.Log.
Decode(body) ==
    IF body.kind = "array" THEN [ok |-> TRUE, logs |-> body.logs]
    ELSE IF body.kind = "object" THEN [ok |-> TRUE, logs |-> <<body.log>>]
    ELSE [ok |-> FALSE, logs |-> <<>>]

\* A variant of validateLog that looks at the level before the service.
validateLogLevelFirst(l) ==
    IF TrimSpace(l.Level) = <<>> THEN "level"
    ELSE IF TrimSpace(l.Service) = <<>> THEN "service"
    ELSE IF TrimSpace(l.Message) = <<>> THEN "message"
    ELSE ""

\* validateLog: the first missing field, or "" when the entry is valid.
validateLog(l) ==
    IF TrimSpace(l.Service) = <<>> THEN "service"
    ELSE IF TrimSpace(l.Level) = <<>> THEN "level"
    ELSE IF TrimSpace(l.Message) = <<>> THEN "message"
    ELSE ""

\* A variant of SetDefault that leaves a zero timestamp as it is.
SetDefaultKeepsZero(l, t) == l

\* The loop of handleIngest over the decoded entries: each entry gets the
\* current time when its timestamp is zero and is then validated; the loop
\* stops at the first invalid entry (bad = its index, 0 when none).
SetDefault(l, t) ==
    IF l.Timestamp = 0 THEN [l EXCEPT !.Timestamp = t] ELSE l

\* A variant of FirstInvalid that validates the first entry only.
FirstInvalidHeadOnly(ls) ==
    IF ls # <<>> /\ validateLog(ls[1]) # "" THEN 1 ELSE 0

\* The index of the first entry validateLog refuses, 0 when there is none.
FirstInvalid(ls) ==
    IF \E i \in 1..Len(ls) : validateLog(ls[i]) # ""
    THEN CHOOSE i \in 1..Len(ls) :
            /\ validateLog(ls[i]) # ""
            /\ \A j \in 1..(i - 1) : validateLog(ls[j]) = ""
    ELSE 0

\* A variant of ValidateAll that refuses the first entry when its timestamp
\* is before the retention window.
ValidateAllRefusesOld(ls, t) ==
    LET old == ls # <<>> /\ ls[1].Timestamp # 0
                  /\ ls[1].Timestamp < t - RetentionTicks
        bad == IF old THEN 1 ELSE FirstInvalid(ls)
        upto == IF bad = 0 THEN Len(ls) ELSE bad
    IN [logs |-> [i \in 1..Len(ls) |->
                    IF i <= upto THEN SetDefault(ls[i], t) ELSE ls[i]],
        bad |-> bad,
        field |-> IF bad = 0 THEN "" ELSE "timestamp"]

ValidateAll(ls, t) ==
    LET bad == FirstInvalid(ls)
        upto == IF bad = 0 THEN Len(ls) ELSE bad
    IN [logs |-> [i \in 1..Len(ls) |->
                    IF i <= upto THEN SetDefault(ls[i], t) ELSE ls[i]],
        bad |-> bad,
        field |-> IF bad = 0 THEN "" ELSE validateLog(ls[bad])]

\* What handleIngest says when it refuses a body: http.Error with
\* "Invalid JSON", or with err.Error() of validateLog, "missing required
\* field: " and the field.
NoText == [kind |-> "none"]

DecodeErrorBody(ok, v) ==
    IF ~ok THEN [kind |-> "text", text |-> "Invalid JSON"]
    ELSE IF v.bad # 0
         THEN [kind |-> "missing required field", field |-> v.field]
    ELSE NoText

\* slog.Warn("invalid log entry", "index", i, "total_logs", len(logs),
\* "reason", err.Error()): i counts from 0.
DecodeWarning(ok, v) ==
    IF ok /\ v.bad # 0
    THEN [kind |-> "invalid log entry", index |-> v.bad - 1,
          total_logs |-> Len(v.logs), reason |-> v.field]
    ELSE NoText

\* ------------------------------------------------------------------ store

\* A row of the logs table.
Row(id, l) ==
    [id |-> id, timestamp |-> l.Timestamp, service |-> l.Service,
     level |-> l.Level, message |-> l.Message, host |-> l.Host]

\* A variant of InsertLog whose row stays when the statement reports an
\* error.
InsertLogKeepsOnError(st, nid, l, failAt) ==
    [store |-> Append(st, Row(nid, l)), nextId |-> nid + 1, err |-> failAt # 0]

\* DB.InsertLog: one INSERT; failAt = 1 when the statement fails.
InsertLog(st, nid, l, failAt) ==
    IF failAt # 0 THEN [store |-> st, nextId |-> nid, err |-> TRUE]
    ELSE [store |-> Append(st, Row(nid, l)), nextId |-> nid + 1, err |-> FALSE]

\* A variant of InsertBatch with no transaction: the rows inserted before
\* the failure stay.
InsertBatchNoRollback(st, nid, ls, failAt) ==
    IF failAt \in 1..Len(ls)
    THEN [store |-> st \o [i \in 1..(failAt - 1) |-> Row(nid + i - 1, ls[i])],
          nextId |-> nid + failAt - 1, err |-> TRUE]
    ELSE [store |-> st \o [i \in 1..Len(ls) |-> Row(nid + i - 1, ls[i])],
          nextId |-> nid + Len(ls), err |-> failAt # 0]

\* A variant of InsertBatch whose first INSERT writes over the last row of
\* the table.
InsertBatchReplaces(st, nid, ls, failAt) ==
    IF failAt # 0 THEN [store |-> st, nextId |-> nid, err |-> TRUE]
    ELSE [store |-> (IF st = <<>> THEN st ELSE SubSeq(st, 1, Len(st) - 1))
                        \o [i \in 1..Len(ls) |-> Row(nid + i - 1, ls[i])],
          nextId |-> nid + Len(ls), err |-> FALSE]

\* DB.InsertBatch: BEGIN, one INSERT for each entry, COMMIT.  failAt = k in
\* 1..n: the k-th statement fails; failAt = n + 1: the commit fails; the
\* deferred Rollback then discards every row of the transaction.
\* failAt = 0: the transaction commits.
InsertBatch(st, nid, ls, failAt) ==
    IF failAt # 0 THEN [store |-> st, nextId |-> nid, err |-> TRUE]
    ELSE [store |-> st \o [i \in 1..Len(ls) |-> Row(nid + i - 1, ls[i])],
          nextId |-> nid + Len(ls), err |-> FALSE]

\* DELETE FROM logs WHERE timestamp < keep: the rows that stay.
RECURSIVE SelectSeq2(_, _)
SelectSeq2(s, keep) ==
    IF s = <<>> THEN <<>>
    ELSE IF Head(s).timestamp >= keep
         THEN <<Head(s)>> \o SelectSeq2(Tail(s), keep)
         ELSE SelectSeq2(Tail(s), keep)

\* A variant of DeleteOldLogs that also deletes the rows at the cutoff.
DeleteOldLogsInclusive(st, t, olderThan) ==
    LET cutoff == t - olderThan
        kept == SelectSeq2(st, cutoff + 1)
    IN [store |-> kept, deleted |-> Len(st) - Len(kept)]

\* DB.DeleteOldLogs: the cutoff is time.Now().Add(-olderThan); the rows
\* deleted are counted.
DeleteOldLogs(st, t, olderThan) ==
    LET cutoff == t - olderThan
        kept == SelectSeq2(st, cutoff)
    IN [store |-> kept, deleted |-> Len(st) - Len(kept)]

\* -------------------------------------------------------------------- hub

\* json.Marshal of the batch: one JSON object for each entry, in order,
\* with the ID the entry has in the handler.
MarshalLog(l) ==
    [id |-> l.ID, timestamp |-> l.Timestamp, service |-> l.Service,
     level |-> l.Level, message |-> l.Message, host |-> l.Host]

Marshal(ls) == [i \in 1..Len(ls) |-> MarshalLog(ls[i])]

\* hubMsg holds the message of the broadcast in progress, if any.
NoMsg == <<>>
NoLimiter == "none"

\* ------------------------------------------------------------------ query

\* The rows a test or a client can have stored before it queries.
MaxRows == 3

\* "limit = 1000 // Default limit" of DB.QueryLogs, scaled to 2.
DefaultLimit == 2

\* A *time.Time of models.LogFilter: <<>> is nil, <<t>> points to t.
NilTime == <<>>

MkFilter(svc, lvl, host, start, end, limit, search) ==
    [Service |-> svc, Level |-> lvl, Host |-> host, StartTime |-> start,
     EndTime |-> end, Limit |-> limit, Search |-> search]

NoFilter == MkFilter(<<>>, <<>>, <<>>, NilTime, NilTime, 0, <<>>)

\* The query string of GET /api/logs.  A start or end parameter is <<>>
\* when absent, and else says whether it is well-formed RFC3339 and the
\* instant it then denotes.
MkParams(svc, lvl, host, search, limit, start, end) ==
    [service |-> svc, level |-> lvl, host |-> host, search |-> search,
     limit |-> limit, start |-> start, end |-> end]

NoParams == MkParams(<<>>, <<>>, <<>>, <<>>, <<>>, <<>>, <<>>)

TimeParam(t) == <<[ok |-> TRUE, t |-> t]>>
BadTimeParam == <<[ok |-> FALSE, t |-> 0]>>

Digits == {"0", "1", "2", "3", "4", "5", "6", "7", "8", "9"}

DigitValue(c) ==
    CASE c = "0" -> 0 [] c = "1" -> 1 [] c = "2" -> 2 [] c = "3" -> 3
      [] c = "4" -> 4 [] c = "5" -> 5 [] c = "6" -> 6 [] c = "7" -> 7
      [] c = "8" -> 8 [] c = "9" -> 9

RECURSIVE DecimalValue(_)
DecimalValue(ds) ==
    IF ds = <<>> THEN 0
    ELSE 10 * DecimalValue(SubSeq(ds, 1, Len(ds) - 1)) + DigitValue(ds[Len(ds)])

\* strconv.Atoi: an optional sign, then one or more decimal digits.
Atoi(s) ==
    LET signed == s # <<>> /\ Head(s) \in {"+", "-"}
        ds == IF signed THEN Tail(s) ELSE s
    IN IF ds = <<>> \/ \E i \in 1..Len(ds) : ds[i] \notin Digits
       THEN [ok |-> FALSE, n |-> 0]
       ELSE [ok |-> TRUE,
             n |-> IF signed /\ Head(s) = "-" THEN 0 - DecimalValue(ds)
                   ELSE DecimalValue(ds)]

\* SQLite's LIKE folds the case of the ASCII letters.
UpperCase ==
    <<"A", "B", "C", "D", "E", "F", "G", "H", "I", "J", "K", "L", "M", "N",
      "O", "P", "Q", "R", "S", "T", "U", "V", "W", "X", "Y", "Z">>
LowerCase ==
    <<"a", "b", "c", "d", "e", "f", "g", "h", "i", "j", "k", "l", "m", "n",
      "o", "p", "q", "r", "s", "t", "u", "v", "w", "x", "y", "z">>

ToLower(c) ==
    IF \E i \in 1..26 : UpperCase[i] = c
    THEN LowerCase[CHOOSE i \in 1..26 : UpperCase[i] = c]
    ELSE c

\* SQLite's LIKE: % matches any run of characters, _ any one character,
\* any other character itself, letters without regard to case.
RECURSIVE Like(_, _)
Like(str, pat) ==
    IF pat = <<>> THEN str = <<>>
    ELSE IF Head(pat) = "%"
         THEN Like(str, Tail(pat)) \/ (str # <<>> /\ Like(Tail(str), pat))
    ELSE /\ str # <<>>
         /\ (Head(pat) = "_" \/ ToLower(Head(pat)) = ToLower(Head(str)))
         /\ Like(Tail(str), Tail(pat))

\* The WHERE clause DB.QueryLogs builds: one condition for each field of
\* the filter that is set.
Matches(row, f) ==
    /\ f.Service # <<>> => row.service = f.Service
    /\ f.Level # <<>> => row.level = f.Level
    /\ f.Host # <<>> => row.host = f.Host
    /\ f.StartTime # NilTime => row.timestamp >= f.StartTime[1]
    /\ f.EndTime # NilTime => row.timestamp <= f.EndTime[1]
    /\ f.Search # <<>> => Like(row.message, <<"%">> \o f.Search \o <<"%">>)

RECURSIVE Perms(_)
Perms(S) ==
    IF S = {} THEN {<<>>}
    ELSE UNION {{<<x>> \o p : p \in Perms(S \ {x})} : x \in S}

\* A variant of OrderByTimestampDesc: a SELECT with no ORDER BY returns the
\* rows in rowid order.
OrderByRowid(S) ==
    {o \in Perms(S) : \A i \in 1..(Len(o) - 1) : o[i].id < o[i + 1].id}

\* ORDER BY timestamp DESC: SQL leaves the order of rows of equal timestamp
\* to the engine, so every such order is a possible outcome.
OrderByTimestampDesc(S) ==
    {o \in Perms(S) :
        \A i \in 1..(Len(o) - 1) : o[i].timestamp >= o[i + 1].timestamp}

\* A variant of EffectiveLimit without the default: LIMIT with a number
\* that is not positive is then no limit on the rows of the model.
EffectiveLimitUnclamped(limit) == IF limit <= 0 THEN MaxRows + 2 ELSE limit

\* DB.QueryLogs: limit <= 0 becomes the default limit.
EffectiveLimit(limit) == IF limit <= 0 THEN DefaultLimit ELSE limit

Take(o, n) == SubSeq(o, 1, IF Len(o) < n THEN Len(o) ELSE n)

\* DB.QueryLogs: the possible results of the SELECT.
QueryLogs(st, f) ==
    LET matching == {r \in Range(st) : Matches(r, f)}
    IN {Take(o, EffectiveLimit(f.Limit)) : o \in OrderByTimestampDesc(matching)}

\* A variant of ParseLimit that lets a negative limit through.
ParseLimitClamps(limitStr) ==
    IF limitStr = <<>> THEN [ok |-> TRUE, limit |-> 0]
    ELSE LET a == Atoi(limitStr)
         IN IF ~a.ok THEN [ok |-> FALSE, limit |-> 0]
            ELSE [ok |-> TRUE, limit |-> a.n]

\* handleQueryLogs, the limit parameter: absent, an integer >= 0, or 400.
ParseLimit(limitStr) ==
    IF limitStr = <<>> THEN [ok |-> TRUE, limit |-> 0]
    ELSE LET a == Atoi(limitStr)
         IN IF ~a.ok \/ a.n < 0 THEN [ok |-> FALSE, limit |-> 0]
            ELSE [ok |-> TRUE, limit |-> a.n]

\* handleQueryLogs, a start or end parameter: absent, an instant, or 400.
ParseTime(p) ==
    IF p = <<>> THEN [ok |-> TRUE, t |-> NilTime]
    ELSE IF p[1].ok THEN [ok |-> TRUE, t |-> <<p[1].t>>]
    ELSE [ok |-> FALSE, t |-> NilTime]

\* A variant of ParseQuery that does not compare start and end.
ParseQueryAnyRange(p) ==
    LET l == ParseLimit(p.limit)
        s == ParseTime(p.start)
        e == ParseTime(p.end)
        f == MkFilter(p.service, p.level, p.host, s.t, e.t, l.limit, p.search)
    IN IF ~l.ok \/ ~s.ok \/ ~e.ok THEN [ok |-> FALSE, filter |-> NoFilter]
       ELSE [ok |-> TRUE, filter |-> f]

\* handleQueryLogs up to the call of DB.QueryLogs: the filter, or 400.
ParseQuery(p) ==
    LET l == ParseLimit(p.limit)
        s == ParseTime(p.start)
        e == ParseTime(p.end)
        f == MkFilter(p.service, p.level, p.host, s.t, e.t, l.limit, p.search)
    IN IF ~l.ok \/ ~s.ok \/ ~e.ok THEN [ok |-> FALSE, filter |-> NoFilter]
       ELSE IF s.t # NilTime /\ e.t # NilTime /\ s.t[1] > e.t[1]
            THEN [ok |-> FALSE, filter |-> NoFilter]
       ELSE [ok |-> TRUE, filter |-> f]

\* ---------------------------------------------------------- filter options

\* The callers of GetFilterOptions (handleGetFilters runs once per request).
Callers == {"f1", "f2"}

\* "const filterCacheTTL = 30 * time.Second", in ticks, scaled to 2.
FilterCacheTTL == 2

\* "LIMIT 100" of getDistinctValues, scaled to 2.
DistinctLimit == 2

\* The characters of the model in the order of their bytes: SQLite's BINARY
\* collation compares text byte by byte.
Ascii ==
    <<"\t", "\n", " ", "%", "+", "-",
      "0", "1", "2", "3", "4", "5", "6", "7", "8", "9",
      "A", "B", "C", "D", "E", "F", "G", "H", "I", "J", "K", "L", "M", "N",
      "O", "P", "Q", "R", "S", "T", "U", "V", "W", "X", "Y", "Z", "_",
      "a", "b", "c", "d", "e", "f", "g", "h", "i", "j", "k", "l", "m", "n",
      "o", "p", "q", "r", "s", "t", "u", "v", "w", "x", "y", "z">>

Code(c) == CHOOSE i \in 1..Len(Ascii) : Ascii[i] = c

\* a < b as BINARY text.
RECURSIVE TextLess(_, _)
TextLess(a, b) ==
    IF b = <<>> THEN FALSE
    ELSE IF a = <<>> THEN TRUE
    ELSE IF Head(a) = Head(b) THEN TextLess(Tail(a), Tail(b))
    ELSE Code(Head(a)) < Code(Head(b))

\* ORDER BY column (ascending) of a set of distinct texts.
RECURSIVE OrderByText(_)
OrderByText(S) ==
    IF S = {} THEN <<>>
    ELSE LET m == CHOOSE x \in S : \A y \in S \ {x} : TextLess(x, y)
         IN <<m>> \o OrderByText(S \ {m})

\* var allowedFilterColumns
AllowedFilterColumns == {"service", "level", "host"}

\* The column of a row that a name selects.
ColumnOf(row, column) ==
    CASE column = "service" -> row.service
      [] column = "level" -> row.level
      [] column = "host" -> row.host

\* A variant of getDistinctValues with no allow-list: a name that is no
\* column of the three makes the query fail in the engine.
getDistinctValuesUnchecked(st, column, fail) ==
    IF column \notin AllowedFilterColumns \/ fail
    THEN [err |-> TRUE, values |-> <<>>, queried |-> TRUE]
    ELSE [err |-> FALSE, queried |-> TRUE,
          values |-> Take(OrderByText({ColumnOf(r, column) : r \in Range(st)}),
                          DistinctLimit)]

\* DB.getDistinctValues: the allow-list, then SELECT DISTINCT column FROM
\* logs WHERE column IS NOT NULL ORDER BY column LIMIT 100 (no column of a
\* row inserted by InsertLog or InsertBatch is NULL).  fail: the query fails.
getDistinctValues(st, column, fail) ==
    IF column \notin AllowedFilterColumns
    THEN [err |-> TRUE, values |-> <<>>, queried |-> FALSE]
    ELSE IF fail THEN [err |-> TRUE, values |-> <<>>, queried |-> TRUE]
    ELSE [err |-> FALSE, queried |-> TRUE,
          values |-> Take(OrderByText({ColumnOf(r, column) : r \in Range(st)}),
                          DistinctLimit)]

\* A call of getDistinctValues: the column asked for, whether the engine
\* was failing, and what the call returned.
MkDistinct(column, fail, res) ==
    [column |-> column, fail |-> fail, err |-> res.err,
     values |-> res.values, queried |-> res.queried]
NoDistinct ==
    MkDistinct("", FALSE, [err |-> FALSE, values |-> <<>>, queried |-> FALSE])

\* The methods requests come with.
Methods == {"GET", "POST", "PUT", "DELETE", "HEAD", "OPTIONS"}

\* A variant of MethodCheck in which the handlers do not look at the method.
MethodCheckCorsOnly(path, method) ==
    IF method = "OPTIONS" THEN 204 ELSE 0

\* corsMiddleware, then the first lines of the handler of the path: the
\* status the request is answered at once, or 0 when the handler goes on.
MethodCheck(path, method) ==
    IF method = "OPTIONS" THEN 204
    ELSE IF path = "/api/ingest" /\ method # "POST" THEN 405
    ELSE IF path \in {"/api/logs", "/api/filters"} /\ method # "GET" THEN 405
    ELSE 0

\* A request that came in: status 0 when its handler went on.
MkServed(path, method) ==
    [path |-> path, method |-> method, status |-> MethodCheck(path, method)]
NoServed == [path |-> "", method |-> "", status |-> 0]

\* strings.Index(s, ch) for a one-byte ch, counted from 1: 0 when ch is
\* not in s.
IndexByte(s, ch) ==
    IF \E i \in 1..Len(s) : s[i] = ch
    THEN CHOOSE i \in 1..Len(s) : s[i] = ch /\ \A j \in 1..(i - 1) : s[j] # ch
    ELSE 0

\* The last index of ch in s, counted from 1: 0 when ch is not in s.
LastIndexByte(s, ch) ==
    IF \E i \in 1..Len(s) : s[i] = ch
    THEN CHOOSE i \in 1..Len(s) :
             s[i] = ch /\ \A j \in (i + 1)..Len(s) : s[j] # ch
    ELSE 0

\* net.SplitHostPort: host and port around the last colon, the host in
\* brackets when it holds colons; err when the address has no port, too
\* many colons or a stray bracket.
SplitHostPort(hp) ==
    LET i == LastIndexByte(hp, ":")
        end == IndexByte(hp, "]")
        bad == [host |-> <<>>, port |-> <<>>, err |-> TRUE]
        bracket == hp # <<>> /\ hp[1] = "["
        host == IF bracket THEN SubSeq(hp, 2, end - 1) ELSE SubSeq(hp, 1, i - 1)
        j == IF bracket THEN 2 ELSE 1
        k == IF bracket THEN end + 1 ELSE 1
    IN IF i = 0 THEN bad
       ELSE IF bracket /\ (end = 0 \/ end + 1 # i) THEN bad
       ELSE IF ~bracket /\ IndexByte(host, ":") # 0 THEN bad
       ELSE IF IndexByte(SubSeq(hp, j, Len(hp)), "[") # 0 THEN bad
       ELSE IF IndexByte(SubSeq(hp, k, Len(hp)), "]") # 0 THEN bad
       ELSE [host |-> host, port |-> SubSeq(hp, i + 1, Len(hp)), err |-> FALSE]

\* A variant of getClientIP that returns the address of the header as it
\* stands, spaces included.
getClientIPUntrimmed(xff, remoteAddr) ==
    IF xff # <<>>
    THEN IF IndexByte(xff, ",") # 0
         THEN SubSeq(xff, 1, IndexByte(xff, ",") - 1)
         ELSE xff
    ELSE LET a == SplitHostPort(remoteAddr)
         IN IF a.err THEN remoteAddr ELSE a.host

\* getClientIP: the first address of X-Forwarded-For when the header is
\* set, else the host of RemoteAddr, else RemoteAddr.
getClientIP(xff, remoteAddr) ==
    IF xff # <<>>
    THEN IF IndexByte(xff, ",") # 0
         THEN TrimSpace(SubSeq(xff, 1, IndexByte(xff, ",") - 1))
         ELSE TrimSpace(xff)
    ELSE LET a == SplitHostPort(remoteAddr)
         IN IF a.err THEN remoteAddr ELSE a.host

\* A call of getClientIP and the string it returned.
MkIPCall(xff, remoteAddr) ==
    [xff |-> xff, addr |-> remoteAddr, ip |-> getClientIP(xff, remoteAddr),
     called |-> TRUE]
NoIPCall == [xff |-> <<>>, addr |-> <<>>, ip |-> <<>>, called |-> FALSE]

\* A variant of InsertLogContext that does not look at the context.
InsertLogIgnoresContext(done, st, nid, l, failAt) ==
    InsertLog(st, nid, l, failAt)

\* DB.InsertLog with its context: conn.ExecContext returns ctx.Err() and
\* runs no statement when the context is done before the call.
InsertLogContext(done, st, nid, l, failAt) ==
    IF done THEN [store |-> st, nextId |-> nid, err |-> TRUE]
    ELSE InsertLog(st, nid, l, failAt)

\* DB.QueryLogs with its context: conn.QueryContext returns ctx.Err() when
\* the context is done before the call, and QueryLogs returns nil, err.
QueryLogsContext(done, st, f) ==
    IF done THEN { [logs |-> <<>>, err |-> TRUE] }
    ELSE { [logs |-> o, err |-> FALSE] : o \in QueryLogs(st, f) }

\* A store call with a context, the error and the entries it returned.
MkCtxCall(op, done, err, out, flip) ==
    [op |-> op, done |-> done, err |-> err, logs |-> out, flip |-> flip]
NoCtxCall == MkCtxCall("", FALSE, FALSE, <<>>, FALSE)

\* The process after main has started the server: the listener is open,
\* no signal has come, the store is open.  writing and queued are the
\* requests inside their store write and the messages in the hub's queue
\* when Shutdown was called.
Running ==
    [listening |-> TRUE, shutdown |-> "idle", closed |-> FALSE,
     exited |-> FALSE, writing |-> {}, queued |-> <<>>]

\* pongWait and pingPeriod, in units of six seconds.
PongWait == 10
PingPeriod == (PongWait * 9) \div 10

\* conn.SetReadDeadline(time.Now().Add(pongWait)).
ReadDeadline(t) == t + PongWait

\* A variant of PongHandler that leaves the read deadline as it is.
PongHandlerKeepsDeadline(deadline, t) == deadline

\* The handler readPump sets with SetPongHandler.
PongHandler(deadline, t) == ReadDeadline(t)

\* A connection when its pumps start: age is the time since then, pongs
\* the instants at which the pongs on their way arrive; missed: the peer
\* left a ping unanswered; slow: a pong is to arrive a whole unit or more
\* after the tick of its ping; timedOut: ReadMessage failed at the deadline.
NoHeartbeat ==
    [age |-> 0, deadline |-> ReadDeadline(0), nextPing |-> PingPeriod,
     pongs |-> {}, pings |-> 0, missed |-> FALSE, slow |-> FALSE,
     timedOut |-> FALSE]

\* The history of the hub: n broadcasts received so far, msgs their
\* messages in order, reg[c] the value of n when c was registered (-1
\* before), enq[c] the messages placed on c.send, each with the number of
\* the broadcast whose range loop placed it; where watch is set, late the
\* clients evicted while their read pump was at the send on
\* wsHub.unregister.
NoTrace ==
    [on |-> FALSE, n |-> 0, msgs |-> <<>>, reg |-> [c \in Subs |-> 0 - 1],
     enq |-> [c \in Subs |-> <<>>], watch |-> FALSE, late |-> {}]

TraceRegister(t, c) ==
    IF t.on THEN [t EXCEPT !.reg[c] = t.n] ELSE t

TraceReceive(t, msg) ==
    IF t.on THEN [t EXCEPT !.n = @ + 1, !.msgs = Append(@, msg)] ELSE t

TraceEnqueue(t, c, before, after) ==
    IF t.on /\ Len(after) > Len(before)
    THEN [t EXCEPT !.enq[c] = Append(@, [i |-> t.n, m |-> after[Len(after)]])]
    ELSE t

TraceEvict(t, c, evicted, leaving) ==
    IF t.watch /\ evicted /\ leaving
    THEN [t EXCEPT !.late = @ \cup {c}]
    ELSE t

\* The metadata column before any request: the blobs of the rows, the
\* documents they were ingested with, whether in a batch, and the documents
\* of the last response.
NoMeta == [rows |-> <<>>, sent |-> <<>>, out |-> <<>>, batch |-> <<>>]

\* models.FilterOptions and its zero value.
MkOptions(services, levels, hosts) ==
    [services |-> services, levels |-> levels, hosts |-> hosts]

NoOptions == MkOptions(<<>>, <<>>, <<>>)

\* A call of GetFilterOptions that returned: who made it, when it checked
\* the cache and the expiry it saw, when it returned, whether it was served
\* from the cache, whether it failed, the queries it ran, whether another
\* call returned or the store changed while it ran, and what it returned.
MkCall(who, at, expSeen, doneAt, hit, err, reads, over, quiet, result) ==
    [who |-> who, at |-> at, expSeen |-> expSeen, doneAt |-> doneAt,
     hit |-> hit, err |-> err, reads |-> reads, over |-> over,
     quiet |-> quiet, result |-> result]

NoCall == MkCall("none", 0, 0, 0, FALSE, FALSE, 0, FALSE, TRUE, NoOptions)

\* What tells two contents of the logs table apart within one run: an
\* insert moves AUTOINCREMENT on, a delete makes the table shorter.
StoreVersion(st, nid) == <<nid, Len(st)>>

NoVersion == <<0, 0>>

\* A variant of CacheFresh that never finds the cache fresh.
CacheNeverFresh(t, expires) == FALSE

\* GetFilterOptions: time.Now().Before(db.filterCache.expires).
CacheFresh(t, expires) == t < expires

\* A variant of CacheExpiry with no time to live.
CacheExpiryNow(t) == t

\* GetFilterOptions: time.Now().Add(filterCacheTTL).
CacheExpiry(t) == t + FilterCacheTTL

VARIABLES
    now,          \* the wall clock
    rpc,          \* handleIngest: where each request is
    rip,          \* handleIngest: ip of each request
    rlim,         \* handleIngest: the limiter getLimiter returned
    logs,         \* handleIngest: the decoded entries of each request
    decoded,      \* whether the body of the request was read and decoded
    status,       \* the HTTP status each request was answered (0: not yet)
    added,        \* the number of rows the request's insert added
    submitted,    \* the number of messages the request handed to the hub
    limiters,     \* ipRateLimiter.limiters: ip -> limiter
    tokens,       \* the tokens of each limiter
    admitted,     \* per ip: requests admitted since the clock last moved
    store,        \* the logs table
    nextId,       \* AUTOINCREMENT
    committed,    \* every entry ever committed to the store
    nextSweep,    \* cleanupRoutine: when the next sweep is due
    hubClients,   \* wsHub.clients
    hubBroadcast, \* wsHub.broadcast
    hubPc,        \* wsHub.run: "select", or "deliver" inside a broadcast
    hubMsg,       \* wsHub.run: the message being broadcast
    hubTodo,      \* wsHub.run: the clients the range loop has not visited
    send,         \* wsClient.send of each connection
    sendClosed,   \* whether wsClient.send was closed
    closes,       \* how many times close(client.send) was called
    rp,           \* readPump of each connection
    wp,           \* writePump of each connection
    received,     \* the messages written to each connection's peer
    qpc,          \* the query: "idle" before the call, "done" after it
    qKind,        \* "db": DB.QueryLogs was called; "http": GET /api/logs
    qParams,      \* the parameters of the GET /api/logs request
    qFilter,      \* the models.LogFilter given to DB.QueryLogs
    qStatus,      \* the status of the answer: 200 or 400
    qResult,      \* the rows returned
    qRan,         \* whether the request called DB.QueryLogs
    cacheOptions, \* filterCache.options
    cacheExpires, \* filterCache.expires (0: the zero time)
    fpc,          \* GetFilterOptions: where each caller is
    fOpts,        \* GetFilterOptions: the options read so far
    fAt,          \* when the call in progress checked the cache
    fExp,         \* the expiry that check saw
    fSeen,        \* the version of the store at that moment
    fReads,       \* the queries the call in progress has run
    fOver,        \* whether another call has returned since that check
    fLast,        \* the call that returned last
    delArg,       \* DB.DeleteOldLogs: the olderThan of the last call
    delCount,     \* DB.DeleteOldLogs: the count it returned (-1: none yet)
    delFlip,      \* flips at every call of DB.DeleteOldLogs
    cleanupErr,   \* runCleanup: whether the last sweep logged "cleanup failed"
    errBody,      \* handleIngest: what the body of a 400 response says
    warnLog,      \* handleIngest: the "invalid log entry" record logged
    began,        \* when the call of handleIngest in progress began
    rawLogs,      \* the entries of its body as they were decoded
    gRes,         \* DB.getDistinctValues: the last call and what it returned
    served,       \* the last HTTP request that came in and how far it got
    meta,         \* the metadata column and the documents around it
    ipCall,       \* getClientIP: the last call and what it returned
    ctxCall,      \* the last store call made with a context
    proc,         \* the process: listener, Shutdown, main and the store handle
    hb,           \* the read deadline and the ping ticker of each connection
    trace         \* the history of the hub, where it is recorded

reqVars == <<rpc, rip, rlim, logs, decoded, status, added, submitted>>
limVars == <<limiters, tokens, admitted>>
dbVars == <<store, nextId, committed>>
hubVars == <<hubClients, hubBroadcast, hubPc, hubMsg, hubTodo>>
subVars == <<send, sendClosed, closes, rp, wp, received>>
qVars == <<qpc, qKind, qParams, qFilter, qStatus, qResult, qRan>>
cacheVars == <<cacheOptions, cacheExpires>>
fVars == <<fpc, fOpts, fAt, fExp, fSeen, fReads, fOver, fLast>>
delVars == <<delArg, delCount, delFlip, cleanupErr>>
respVars == <<errBody, warnLog>>
callVars == <<began, rawLogs>>
auxVars == <<meta, ipCall, ctxCall, proc, hb, trace>>
vars == <<now, reqVars, limVars, dbVars, nextSweep, hubVars, subVars, qVars,
          cacheVars, fVars, delVars, respVars, callVars, gRes, served, auxVars>>

InitProgram ==
    /\ now = BootTime
    /\ rpc = [r \in AllReqs |-> "idle"]
    /\ rip = [r \in AllReqs |-> "none"]
    /\ rlim = [r \in AllReqs |-> NoLimiter]
    /\ logs = [r \in AllReqs |-> <<>>]
    /\ decoded = [r \in AllReqs |-> FALSE]
    /\ status = [r \in AllReqs |-> 0]
    /\ added = [r \in AllReqs |-> 0]
    /\ submitted = [r \in AllReqs |-> 0]
    /\ limiters = [ip \in AllIPs |-> NoLimiter]
    /\ tokens = [r \in AllReqs |-> Burst]
    /\ admitted = [ip \in AllIPs |-> 0]
    /\ store = <<>>
    /\ nextId = 1
    /\ committed = {}
    /\ nextSweep = BootTime
    /\ hubClients = {}
    /\ hubBroadcast = <<>>
    /\ hubPc = "select"
    /\ hubMsg = NoMsg
    /\ hubTodo = {}
    /\ send = [c \in Subs |-> <<>>]
    /\ sendClosed = [c \in Subs |-> FALSE]
    /\ closes = [c \in Subs |-> 0]
    /\ rp = [c \in Subs |-> "none"]
    /\ wp = [c \in Subs |-> "none"]
    /\ received = [c \in Subs |-> <<>>]
    /\ qpc = "idle"
    /\ qKind = "none"
    /\ qParams = NoParams
    /\ qFilter = NoFilter
    /\ qStatus = 0
    /\ qResult = <<>>
    /\ qRan = FALSE
    /\ cacheOptions = NoOptions
    /\ cacheExpires = 0
    /\ fpc = [c \in Callers |-> "idle"]
    /\ fOpts = [c \in Callers |-> NoOptions]
    /\ fAt = [c \in Callers |-> 0]
    /\ fExp = [c \in Callers |-> 0]
    /\ fSeen = [c \in Callers |-> NoVersion]
    /\ fReads = [c \in Callers |-> 0]
    /\ fOver = [c \in Callers |-> FALSE]
    /\ fLast = NoCall
    /\ delArg = 0
    /\ delCount = 0 - 1
    /\ delFlip = FALSE
    /\ cleanupErr = FALSE
    /\ errBody = [r \in AllReqs |-> NoText]
    /\ warnLog = [r \in AllReqs |-> NoText]
    /\ began = [r \in AllReqs |-> 0]
    /\ rawLogs = [r \in AllReqs |-> <<>>]
    /\ gRes = NoDistinct
    /\ served = NoServed
    /\ meta = NoMeta
    /\ ipCall = NoIPCall
    /\ ctxCall = NoCtxCall
    /\ proc = Running
    /\ hb = [c \in Subs |-> NoHeartbeat]

\* The state after construction; the history of the hub is not recorded.
Init == InitProgram /\ trace = NoTrace

\* The state after construction, the history of the hub being recorded.
TraceInit == InitProgram /\ trace = [NoTrace EXCEPT !.on = TRUE]

\* The same state, with the evictions that cross an unregister recorded.
WatchInit == InitProgram /\ trace = [NoTrace EXCEPT !.watch = TRUE]

\* What a row holds of the entry it was inserted from.
EntryOf(row) ==
    [timestamp |-> row.timestamp, service |-> row.service, level |-> row.level,
     message |-> row.message, host |-> row.host]

\* --------------------------------------------------------- handleIngest

\* What a call holds while it runs (v) and after it returned (zero).
AtReturn(pc, v, zero) == IF pc = "done" THEN zero ELSE v

\* A request to /api/ingest: corsMiddleware and the method check of
\* handleIngest, then getClientIP and getLimiter's limiters.Load(ip).
ServeIngest(r, ip, method) ==
    /\ rpc[r] = "idle"
    /\ served' = MkServed("/api/ingest", method)
    /\ IF MethodCheck("/api/ingest", method) # 0
       THEN UNCHANGED <<rip, rpc, began>>
       ELSE /\ rip' = [rip EXCEPT ![r] = ip]
            /\ rpc' = [rpc EXCEPT ![r] = "load"]
            /\ began' = [began EXCEPT ![r] = now]
    /\ UNCHANGED <<now, rlim, logs, decoded, status, added, submitted, limVars,
                   dbVars, nextSweep, qVars, hubVars, subVars,
                   cacheVars, fVars, delVars, respVars, rawLogs, gRes, auxVars>>

\* POST /api/ingest.
IngestStartFrom(r, ip) == ServeIngest(r, ip, "POST")

IngestStart(r) == \E ip \in IPs : IngestStartFrom(r, ip)

\* A variant of GetLimiterLoad with one bucket for every identity: a hit
\* on the limiter of any ip.
GetLimiterLoadAnyKey(r) ==
    /\ rpc[r] = "load"
    /\ IF \E ip \in AllIPs : limiters[ip] # NoLimiter
       THEN /\ \E ip \in AllIPs :
                 /\ limiters[ip] # NoLimiter
                 /\ rlim' = [rlim EXCEPT ![r] = limiters[ip]]
            /\ rpc' = [rpc EXCEPT ![r] = "allow"]
       ELSE /\ rpc' = [rpc EXCEPT ![r] = "store"]
            /\ UNCHANGED rlim
    /\ UNCHANGED <<now, rip, logs, decoded, status, added, submitted, limVars,
                   dbVars, nextSweep, qVars, hubVars, subVars,
                   cacheVars, fVars, delVars, respVars, callVars,
                   gRes, served, auxVars>>

\* getLimiter: limiters.Load(ip); a hit returns the stored limiter.
GetLimiterLoad(r) ==
    /\ rpc[r] = "load"
    /\ IF limiters[rip[r]] # NoLimiter
       THEN /\ rlim' = [rlim EXCEPT ![r] = limiters[rip[r]]]
            /\ rpc' = [rpc EXCEPT ![r] = "allow"]
       ELSE /\ rpc' = [rpc EXCEPT ![r] = "store"]
            /\ UNCHANGED rlim
    /\ UNCHANGED <<now, rip, logs, decoded, status, added, submitted, limVars,
                   dbVars, nextSweep, qVars, hubVars, subVars,
                   cacheVars, fVars, delVars, respVars, callVars,
                   gRes, served, auxVars>>

\* getLimiter after a miss: rate.NewLimiter, limiters.Store(ip, limiter).
\* The new limiter is named after the request that made it.
GetLimiterStore(r) ==
    /\ rpc[r] = "store"
    /\ tokens' = [tokens EXCEPT ![r] = Burst]
    /\ limiters' = [limiters EXCEPT ![rip[r]] = r]
    /\ rlim' = [rlim EXCEPT ![r] = r]
    /\ rpc' = [rpc EXCEPT ![r] = "allow"]
    /\ UNCHANGED <<now, rip, logs, decoded, status, added, submitted, admitted,
                   dbVars, nextSweep, qVars, hubVars, subVars,
                   cacheVars, fVars, delVars, respVars, callVars,
                   gRes, served, auxVars>>

\* rate.Limiter.Allow with no time elapsed since the last refill.
AllowStep(tok) ==
    [allowed |-> tok > 0, tokens |-> IF tok > 0 THEN tok - 1 ELSE tok]

\* A variant of RateLimitOutcome in which a denied request goes on.
RateLimitDeniedFallsThrough(allowed) ==
    IF allowed THEN [pc |-> "decode", status |-> 0]
    ELSE [pc |-> "decode", status |-> 429]

\* handleIngest after Allow: a denial answers 429 and returns.
RateLimitOutcome(allowed) ==
    IF allowed THEN [pc |-> "decode", status |-> 0]
    ELSE [pc |-> "done", status |-> 429]

IngestRateLimit(r) ==
    /\ rpc[r] = "allow"
    /\ LET a == AllowStep(tokens[rlim[r]])
           o == RateLimitOutcome(a.allowed)
       IN /\ tokens' = [tokens EXCEPT ![rlim[r]] = a.tokens]
          /\ admitted' = [admitted EXCEPT ![rip[r]] =
                            IF a.allowed THEN @ + 1 ELSE @]
          /\ rpc' = [rpc EXCEPT ![r] = o.pc]
          /\ status' = [status EXCEPT ![r] = o.status]
          /\ began' = [began EXCEPT ![r] = AtReturn(o.pc, @, 0)]
    /\ UNCHANGED <<now, rip, rlim, logs, decoded, added, submitted, limiters,
                   dbVars, nextSweep, qVars, hubVars, subVars,
                   cacheVars, fVars, delVars, respVars, rawLogs, gRes, served,
                   auxVars>>

\* handleIngest: read the body, decode it, default and validate each entry.
IngestDecodeOf(r, bodies) ==
    /\ rpc[r] = "decode"
    /\ \E body \in bodies :
         LET d == Decode(body)
             v == ValidateAll(d.logs, now)
         IN /\ decoded' = [decoded EXCEPT ![r] = TRUE]
            /\ logs' = [logs EXCEPT ![r] = v.logs]
            /\ errBody' = [errBody EXCEPT ![r] = DecodeErrorBody(d.ok, v)]
            /\ warnLog' = [warnLog EXCEPT ![r] = DecodeWarning(d.ok, v)]
            /\ IF d.ok /\ v.bad = 0
               THEN /\ rpc' = [rpc EXCEPT ![r] = "insert"]
                    /\ status' = [status EXCEPT ![r] =
                                    IF status[r] = 0 THEN 0 ELSE status[r]]
                    /\ rawLogs' = [rawLogs EXCEPT ![r] = d.logs]
                    /\ UNCHANGED began
               ELSE /\ rpc' = [rpc EXCEPT ![r] = "done"]
                    /\ status' = [status EXCEPT ![r] =
                                    IF status[r] = 0 THEN 400 ELSE status[r]]
                    /\ began' = [began EXCEPT ![r] = 0]
                    /\ UNCHANGED rawLogs
    /\ UNCHANGED <<now, rip, rlim, added, submitted, limVars, dbVars,
                   nextSweep, qVars, hubVars, subVars, cacheVars, fVars,
                   delVars, gRes, served, auxVars>>

IngestDecode(r) == IngestDecodeOf(r, Bodies)

\* Where the store can fail a request of n entries: nowhere (0), at the
\* k-th statement, or at the commit of a batch (n + 1).
FailPoints(n) == IF n > 1 THEN 0..(n + 1) ELSE 0..n

\* A variant of InsertOutcome that goes on to the broadcast after an error.
InsertErrorIgnored(err) == [pc |-> "broadcast", status |-> 0]

\* handleIngest after the insert: an error answers 500 and returns.
InsertOutcome(err) ==
    IF err THEN [pc |-> "done", status |-> 500]
    ELSE [pc |-> "broadcast", status |-> 0]

\* handleIngest: InsertBatch for more than one entry, InsertLog for one,
\* nothing for none.
IngestInsert(r) ==
    /\ rpc[r] = "insert"
    /\ \E failAt \in FailPoints(Len(logs[r])) :
         LET n == Len(logs[r])
             res == IF n > 1 THEN InsertBatch(store, nextId, logs[r], failAt)
                    ELSE IF n = 1
                         THEN InsertLog(store, nextId, logs[r][1], failAt)
                    ELSE [store |-> store, nextId |-> nextId, err |-> FALSE]
             o == InsertOutcome(res.err)
         IN /\ store' = res.store
            /\ nextId' = res.nextId
            /\ committed' = committed \cup {EntryOf(x) : x \in Range(res.store)}
            /\ added' = [added EXCEPT ![r] = Len(res.store) - Len(store)]
            /\ rpc' = [rpc EXCEPT ![r] = o.pc]
            /\ status' = [status EXCEPT ![r] =
                            IF status[r] = 0 THEN o.status ELSE status[r]]
            /\ began' = [began EXCEPT ![r] = AtReturn(o.pc, @, 0)]
            /\ rawLogs' = [rawLogs EXCEPT ![r] = AtReturn(o.pc, @, <<>>)]
    /\ UNCHANGED <<now, rip, rlim, logs, decoded, submitted, limVars,
                   nextSweep, qVars, hubVars, subVars,
                   cacheVars, fVars, delVars, respVars, gRes, served, auxVars>>

\* A variant of IngestBroadcast that hands nothing to the hub when the
\* request has no entries.
IngestBroadcastSkipsEmpty(r) ==
    /\ rpc[r] = "broadcast"
    /\ Len(hubBroadcast) < BroadcastCap
    /\ hubBroadcast' = IF logs[r] = <<>> THEN hubBroadcast
                       ELSE Append(hubBroadcast, Marshal(logs[r]))
    /\ submitted' = [submitted EXCEPT ![r] =
                       IF logs[r] = <<>> THEN @ ELSE @ + 1]
    /\ rpc' = [rpc EXCEPT ![r] = "done"]
    /\ status' = [status EXCEPT ![r] = IF status[r] = 0 THEN 201 ELSE status[r]]
    /\ began' = [began EXCEPT ![r] = 0]
    /\ rawLogs' = [rawLogs EXCEPT ![r] = <<>>]
    /\ UNCHANGED <<now, rip, rlim, logs, decoded, added, limVars, dbVars,
                   nextSweep, qVars, hubClients, hubPc, hubMsg, hubTodo,
                   subVars,
                   cacheVars, fVars, delVars, respVars, gRes, served, auxVars>>

\* handleIngest: hub.broadcastLogs(logs), a send on the buffered channel
\* wsHub.broadcast that waits while the channel is full, then 201.
IngestBroadcast(r) ==
    /\ rpc[r] = "broadcast"
    /\ Len(hubBroadcast) < BroadcastCap
    /\ hubBroadcast' = Append(hubBroadcast, Marshal(logs[r]))
    /\ submitted' = [submitted EXCEPT ![r] = @ + 1]
    /\ rpc' = [rpc EXCEPT ![r] = "done"]
    /\ status' = [status EXCEPT ![r] = IF status[r] = 0 THEN 201 ELSE status[r]]
    /\ began' = [began EXCEPT ![r] = 0]
    /\ rawLogs' = [rawLogs EXCEPT ![r] = <<>>]
    /\ UNCHANGED <<now, rip, rlim, logs, decoded, added, limVars, dbVars,
                   nextSweep, qVars, hubClients, hubPc, hubMsg, hubTodo,
                   subVars,
                   cacheVars, fVars, delVars, respVars, gRes, served, auxVars>>

\* ---------------------------------------------------------------- wsHub

\* The send of handleWebSocket on the unbuffered channel wsHub.register,
\* which the hub receives in its select (case client := <-h.register); the
\* pumps start.  at: where the handler of c is before the step.
HubAccept(c, at) ==
    /\ hubPc = "select"
    /\ rp[c] = at
    /\ hubClients' = hubClients \cup {c}
    /\ rp' = [rp EXCEPT ![c] = "reading"]
    /\ wp' = [wp EXCEPT ![c] = "running"]
    /\ trace' = TraceRegister(trace, c)
    /\ UNCHANGED <<now, reqVars, limVars, dbVars, nextSweep, qVars,
                   hubBroadcast, hubPc, hubMsg, hubTodo, send, sendClosed,
                   closes,
                   received,
                   cacheVars, fVars, delVars, respVars, callVars,
                   gRes, served, meta, ipCall, ctxCall, proc, hb>>

\* The upgrade and the send on wsHub.register as one step.
HubRegister(c) == HubAccept(c, "none")

\* handleWebSocket: the connection is upgraded and the handler comes to the
\* send on wsHub.register, where it waits for the hub.
HandleWebSocket(c) ==
    /\ rp[c] = "none"
    /\ rp' = [rp EXCEPT ![c] = "register"]
    /\ UNCHANGED <<now, reqVars, limVars, dbVars, nextSweep, qVars, hubVars,
                   send, sendClosed, closes, wp, received,
                   cacheVars, fVars, delVars, respVars, callVars,
                   gRes, served, auxVars>>

\* wsHub.run, case client := <-h.register, for a handler that waits.
HubRegisterWaiting(c) == HubAccept(c, "register")

\* readPump: ReadMessage fails (the peer left, the deadline passed or the
\* connection was closed); the deferred send on wsHub.unregister is next.
ReadPumpExit(c) ==
    /\ rp[c] = "reading"
    /\ rp' = [rp EXCEPT ![c] = "unregister"]
    /\ UNCHANGED <<now, reqVars, limVars, dbVars, nextSweep, qVars, hubVars,
                   send, sendClosed, closes, wp, received,
                   cacheVars, fVars, delVars, respVars, callVars,
                   gRes, served, auxVars>>

\* A variant of HubUnregister that leaves the client in the live set.
HubUnregisterKeepsClient(c) ==
    /\ hubPc = "select"
    /\ rp[c] = "unregister"
    /\ rp' = [rp EXCEPT ![c] = "done"]
    /\ UNCHANGED <<now, reqVars, limVars, dbVars, nextSweep, qVars, hubVars,
                   send, sendClosed, closes, wp, received,
                   cacheVars, fVars, delVars, respVars, callVars,
                   gRes, served, auxVars>>

\* A variant of HubUnregister that does not look the client up before it
\* deletes it and closes its channel.
HubUnregisterUnguarded(c) ==
    /\ hubPc = "select"
    /\ rp[c] = "unregister"
    /\ rp' = [rp EXCEPT ![c] = "done"]
    /\ hubClients' = hubClients \ {c}
    /\ sendClosed' = [sendClosed EXCEPT ![c] = TRUE]
    /\ closes' = [closes EXCEPT ![c] = @ + 1]
    /\ UNCHANGED <<now, reqVars, limVars, dbVars, nextSweep, qVars,
                   hubBroadcast, hubPc, hubMsg, hubTodo, send, wp, received,
                   cacheVars, fVars, delVars, respVars, callVars,
                   gRes, served, auxVars>>

\* wsHub.run, case client := <-h.unregister.
HubUnregister(c) ==
    /\ hubPc = "select"
    /\ rp[c] = "unregister"
    /\ rp' = [rp EXCEPT ![c] = "done"]
    /\ IF c \in hubClients
       THEN /\ hubClients' = hubClients \ {c}
            /\ sendClosed' = [sendClosed EXCEPT ![c] = TRUE]
            /\ closes' = [closes EXCEPT ![c] = @ + 1]
       ELSE UNCHANGED <<hubClients, sendClosed, closes>>
    /\ UNCHANGED <<now, reqVars, limVars, dbVars, nextSweep, qVars,
                   hubBroadcast, hubPc, hubMsg, hubTodo, send, wp, received,
                   cacheVars, fVars, delVars, respVars, callVars,
                   gRes, served, auxVars>>

\* wsHub.run, case message := <-h.broadcast: the range loop starts over the
\* clients of that moment (an empty map ends it at once).
HubReceive ==
    /\ hubPc = "select"
    /\ hubBroadcast # <<>>
    /\ hubBroadcast' = Tail(hubBroadcast)
    /\ IF hubClients = {}
       THEN UNCHANGED <<hubPc, hubMsg, hubTodo>>
       ELSE /\ hubPc' = "deliver"
            /\ hubMsg' = <<Head(hubBroadcast)>>
            /\ hubTodo' = hubClients
    /\ trace' = TraceReceive(trace, Head(hubBroadcast))
    /\ UNCHANGED <<now, reqVars, limVars, dbVars, nextSweep, qVars, hubClients,
                   subVars,
                   cacheVars, fVars, delVars, respVars, callVars,
                   gRes, served, meta, ipCall, ctxCall, proc, hb>>

\* A variant of TrySend without the default case: the hub waits for room.
EvictBlocks(q, msg, full) ==
    [send |-> IF full THEN q ELSE Append(q, msg), evict |-> FALSE,
     wait |-> full]

\* A variant of TrySend that skips a full client and leaves it registered.
TrySendSkipsFull(q, msg, full) ==
    [send |-> IF full THEN q ELSE Append(q, msg), evict |-> FALSE,
     wait |-> FALSE]

\* One iteration of the range loop: the select with a default case.
\* full = the client's send buffer has no room.
TrySend(q, msg, full) ==
    [send |-> IF full THEN q ELSE Append(q, msg), evict |-> full,
     wait |-> FALSE]

HubDeliver(c) ==
    /\ hubPc = "deliver"
    /\ c \in hubTodo
    /\ LET t == TrySend(send[c], hubMsg[1], Len(send[c]) >= SendCap)
       IN /\ ~t.wait
          /\ send' = [send EXCEPT ![c] = t.send]
          /\ sendClosed' = [sendClosed EXCEPT ![c] = @ \/ t.evict]
          /\ closes' = [closes EXCEPT ![c] = IF t.evict THEN @ + 1 ELSE @]
          /\ hubClients' = IF t.evict THEN hubClients \ {c} ELSE hubClients
          /\ trace' = TraceEvict(TraceEnqueue(trace, c, send[c], t.send),
                                 c, t.evict, rp[c] = "unregister")
    /\ hubTodo' = hubTodo \ {c}
    /\ IF hubTodo = {c}
       THEN hubPc' = "select" /\ hubMsg' = NoMsg
       ELSE UNCHANGED <<hubPc, hubMsg>>
    /\ UNCHANGED <<now, reqVars, limVars, dbVars, nextSweep, qVars,
                   hubBroadcast, rp, wp, received,
                   cacheVars, fVars, delVars, respVars, callVars,
                   gRes, served, meta, ipCall, ctxCall, proc, hb>>

\* writePump: a message from send is written to the peer; a failed write
\* ends the pump.
WritePumpWrite(c) ==
    /\ wp[c] = "running"
    /\ send[c] # <<>>
    /\ send' = [send EXCEPT ![c] = Tail(@)]
    /\ \E ok \in BOOLEAN :
         IF ok
         THEN /\ received' = [received EXCEPT ![c] = Append(@, Head(send[c]))]
              /\ UNCHANGED wp
         ELSE /\ wp' = [wp EXCEPT ![c] = "done"]
              /\ UNCHANGED received
    /\ UNCHANGED <<now, reqVars, limVars, dbVars, nextSweep, qVars, hubVars,
                   sendClosed, closes, rp,
                   cacheVars, fVars, delVars, respVars, callVars,
                   gRes, served, auxVars>>

\* writePump: send is closed and drained; the close frame is written and
\* the pump returns.
WritePumpClosed(c) ==
    /\ wp[c] = "running"
    /\ send[c] = <<>>
    /\ sendClosed[c]
    /\ wp' = [wp EXCEPT ![c] = "done"]
    /\ UNCHANGED <<now, reqVars, limVars, dbVars, nextSweep, qVars, hubVars,
                   send, sendClosed, closes, rp, received,
                   cacheVars, fVars, delVars, respVars, callVars,
                   gRes, served, auxVars>>

\* ------------------------------------------------------------ heartbeat

\* How long after the tick of its ping a pong arrives, at most.
MaxLatency == 1
\* How long the pumps of a connection are followed.
MaxAge == 20

\* Time passes for the connection.  A read that is due to fail, a ping
\* that is due and a pong that has arrived come first.
HeartbeatTick(c) ==
    /\ rp[c] = "reading" /\ wp[c] = "running"
    /\ hb[c].age < MaxAge \/ hb[c].missed
    /\ hb[c].age < hb[c].deadline
    /\ hb[c].age < hb[c].nextPing
    /\ \A p \in hb[c].pongs : hb[c].age < p
    /\ hb' = [hb EXCEPT ![c].age = @ + 1]
    /\ UNCHANGED <<now, reqVars, limVars, dbVars, nextSweep, hubVars, subVars,
                   qVars, cacheVars, fVars, delVars, respVars, callVars,
                   gRes, served, meta, ipCall, ctxCall, proc,
                   trace>>

\* writePump, case <-ticker.C: a ping is written.  A failed write ends the
\* pump; a ping that is written is answered by the peer, the pong arriving
\* some time later, or is left unanswered.
WritePumpPing(c) ==
    /\ wp[c] = "running"
    /\ rp[c] = "reading"
    /\ hb[c].age >= hb[c].nextPing
    /\ \E ok \in BOOLEAN :
         IF ok
         THEN /\ \E answer \in BOOLEAN, l \in 0..MaxLatency :
                   hb' = [hb EXCEPT
                            ![c].nextPing = @ + PingPeriod,
                            ![c].pings = @ + 1,
                            ![c].pongs = IF answer THEN @ \cup {hb[c].age + l}
                                         ELSE @,
                            ![c].missed = @ \/ ~answer,
                            ![c].slow = @ \/ (answer /\ l > 0)]
              /\ UNCHANGED wp
         ELSE /\ wp' = [wp EXCEPT ![c] = "done"]
              /\ hb' = [hb EXCEPT ![c].nextPing = @ + PingPeriod]
    /\ UNCHANGED <<now, reqVars, limVars, dbVars, nextSweep, hubVars, send,
                   sendClosed, closes, rp, received,
                   qVars, cacheVars, fVars, delVars, respVars, callVars,
                   gRes, served, meta, ipCall, ctxCall, proc,
                   trace>>

\* readPump: ReadMessage reads a pong before the deadline and runs the
\* pong handler.
ReadPumpPong(c) ==
    /\ rp[c] = "reading"
    /\ hb[c].age < hb[c].deadline
    /\ \E p \in hb[c].pongs :
         /\ p <= hb[c].age
         /\ hb' = [hb EXCEPT
                     ![c].pongs = @ \ {p},
                     ![c].deadline = PongHandler(@, hb[c].age)]
    /\ UNCHANGED <<now, reqVars, limVars, dbVars, nextSweep, hubVars, subVars,
                   qVars, cacheVars, fVars, delVars, respVars, callVars,
                   gRes, served, meta, ipCall, ctxCall, proc,
                   trace>>

\* readPump: ReadMessage fails because the read deadline has passed on the
\* open connection; the deferred send on wsHub.unregister is next.
ReadPumpTimeout(c) ==
    /\ rp[c] = "reading" /\ wp[c] = "running"
    /\ hb[c].age >= hb[c].deadline
    /\ rp' = [rp EXCEPT ![c] = "unregister"]
    /\ hb' = [hb EXCEPT ![c].timedOut = TRUE]
    /\ UNCHANGED <<now, reqVars, limVars, dbVars, nextSweep, hubVars, send,
                   sendClosed, closes, wp, received,
                   qVars, cacheVars, fVars, delVars, respVars, callVars,
                   gRes, served, meta, ipCall, ctxCall, proc,
                   trace>>

\* readPump: ReadMessage fails because writePump has closed the connection.
ReadPumpClosed(c) == wp[c] = "done" /\ ReadPumpExit(c)

\* -------------------------------------------------------- time, the sweep

\* The clock moves by one tick; every token bucket has refilled by then.
Tick ==
    /\ now < MaxTime
    /\ now' = now + 1
    /\ tokens' = [l \in AllReqs |-> Burst]
    /\ admitted' = [ip \in AllIPs |-> 0]
    /\ UNCHANGED <<reqVars, limiters, dbVars, nextSweep, qVars, hubVars,
                   subVars,
                   cacheVars, fVars, delVars, respVars, callVars,
                   gRes, served, auxVars>>

\* A variant of CleanupStep in which a failed sweep ends the routine: no
\* later tick is waited for.
CleanupStepFatal(fail) ==
    /\ now >= nextSweep
    /\ nextSweep' = IF fail THEN MaxTime + MaxTime ELSE now + SweepInterval
    /\ store' = IF fail THEN store
                ELSE DeleteOldLogs(store, now, RetentionTicks).store
    /\ cleanupErr' = fail
    /\ UNCHANGED <<now, reqVars, limVars, nextId, committed, hubVars, subVars,
                   qVars, cacheVars, fVars, delArg, delCount, delFlip,
                   respVars, callVars, gRes, served, auxVars>>

\* cleanupRoutine: runCleanup at the start and on every tick of the ticker,
\* which comes one interval later.  fail: DeleteOldLogs returns an error
\* (the store fails or the context of five minutes runs out), the DELETE
\* has no effect and runCleanup logs the failure.
CleanupStep(fail) ==
    /\ now >= nextSweep
    /\ nextSweep' = now + SweepInterval
    /\ store' = IF fail THEN store
                ELSE DeleteOldLogs(store, now, RetentionTicks).store
    /\ cleanupErr' = fail
    /\ UNCHANGED <<now, reqVars, limVars, nextId, committed, hubVars, subVars,
                   qVars, cacheVars, fVars, delArg, delCount, delFlip,
                   respVars, callVars, gRes, served, auxVars>>

Sweep == \E fail \in BOOLEAN : CleanupStep(fail)

\* ------------------------------------------------------------ the query

\* The entries stored before a query.
SampleLogs ==
    { MkLog(1, S_api, S_ERROR, <<"a", "b">>, S_h1),
      MkLog(2, S_api, S_INFO, <<"A", "c">>, S_h1),
      MkLog(2, S_web, S_ERROR, <<"c">>, <<>>),
      MkLog(3, S_web, S_INFO, <<"b", "_">>, S_h1) }

\* The filters DB.QueryLogs is called with.
Filters ==
    { MkFilter(svc, lvl, host, start, end, limit, search) :
        svc \in {<<>>, S_api}, lvl \in {<<>>, S_ERROR}, host \in {<<>>, S_h1},
        start \in {NilTime, <<2>>}, end \in {NilTime, <<2>>},
        limit \in {0 - 1, 0, 1, 3}, search \in {<<>>, <<"a">>, <<"_">>} }

\* The query strings GET /api/logs is called with.
LimitParams ==
    { <<>>, <<"0">>, <<"1">>, <<"3">>, <<"-", "1">>, <<"-", "0">>,
      <<"+", "1">>, <<"x">>, <<"-">> }

TimeParams == {<<>>, TimeParam(2), TimeParam(3), BadTimeParam}

Params ==
    { MkParams(svc, <<>>, <<>>, <<>>, limit, start, end) :
        svc \in {<<>>, S_api}, limit \in LimitParams,
        start \in TimeParams, end \in TimeParams }

\* DB.InsertLog, called before the query.
StoreLog(l) ==
    /\ qpc = "idle"
    /\ Len(store) < MaxRows
    /\ nextId <= MaxRows
    /\ LET res == InsertLog(store, nextId, l, 0)
       IN /\ store' = res.store
          /\ nextId' = res.nextId
          /\ committed' = committed \cup {EntryOf(x) : x \in Range(res.store)}
    /\ UNCHANGED <<now, reqVars, limVars, nextSweep, hubVars, subVars, qVars,
                   cacheVars, fVars, delVars, respVars, callVars,
                   gRes, served, auxVars>>

\* DB.QueryLogs, called with a filter.
CallQueryLogs(f) ==
    /\ qpc = "idle"
    /\ qpc' = "done"
    /\ qKind' = "db"
    /\ qFilter' = f
    /\ qStatus' = 200
    /\ \E res \in QueryLogs(store, f) : qResult' = res
    /\ qRan' = TRUE
    /\ UNCHANGED <<now, reqVars, limVars, dbVars, nextSweep, hubVars, subVars,
                   qParams, cacheVars, fVars, delVars, respVars, callVars,
                   gRes, served, auxVars>>

\* A request to /api/logs: corsMiddleware and the method check of
\* handleQueryLogs, then the parameters and the query.
ServeQueryLogs(method, p) ==
    /\ qpc = "idle"
    /\ served' = MkServed("/api/logs", method)
    /\ IF MethodCheck("/api/logs", method) # 0
       THEN UNCHANGED qVars
       ELSE /\ qpc' = "done"
            /\ qKind' = "http"
            /\ qParams' = p
            /\ LET q == ParseQuery(p)
               IN IF q.ok
                  THEN /\ qFilter' = q.filter
                       /\ qStatus' = 200
                       /\ \E res \in QueryLogs(store, q.filter) :
                            qResult' = res
                       /\ qRan' = TRUE
                  ELSE /\ qFilter' = NoFilter
                       /\ qStatus' = 400
                       /\ qResult' = <<>>
                       /\ qRan' = FALSE
    /\ UNCHANGED <<now, reqVars, limVars, dbVars, nextSweep, hubVars, subVars,
                   cacheVars, fVars, delVars, respVars, callVars, gRes,
                   auxVars>>

\* handleQueryLogs: GET /api/logs.
HandleQueryLogs(p) == ServeQueryLogs("GET", p)

QueryNext ==
    \/ \E l \in SampleLogs : StoreLog(l)
    \/ \E f \in Filters : CallQueryLogs(f)
    \/ \E p \in Params : HandleQueryLogs(p)

QuerySpec == Init /\ [][QueryNext]_vars

\* ------------------------------------------------------ GetFilterOptions

\* GetFilterOptions, the check under RLock: a fresh cache is returned at
\* once; else the three reads follow.
FilterCheckOf(c, sv) ==
    /\ served' = sv
    /\ fpc[c] = "idle"
    /\ IF CacheFresh(now, cacheExpires)
       THEN /\ fLast' = MkCall(c, now, cacheExpires, now, TRUE, FALSE, 0,
                               FALSE, TRUE, cacheOptions)
            /\ fOver' = [d \in Callers |-> fpc[d] # "idle"]
            /\ UNCHANGED <<fpc, fOpts, fAt, fExp, fSeen, fReads>>
       ELSE /\ fpc' = [fpc EXCEPT ![c] = "service"]
            /\ fOpts' = [fOpts EXCEPT ![c] = NoOptions]
            /\ fAt' = [fAt EXCEPT ![c] = now]
            /\ fExp' = [fExp EXCEPT ![c] = cacheExpires]
            /\ fSeen' = [fSeen EXCEPT ![c] = StoreVersion(store, nextId)]
            /\ fReads' = [fReads EXCEPT ![c] = 0]
            /\ fOver' = [fOver EXCEPT ![c] = FALSE]
            /\ UNCHANGED fLast
    /\ UNCHANGED <<now, reqVars, limVars, dbVars, nextSweep, hubVars, subVars,
                   qVars, cacheVars, delVars,
                   respVars, callVars, gRes, auxVars>>

FilterCheck(c) == FilterCheckOf(c, served)

\* A request to /api/filters: corsMiddleware and the method check of
\* handleGetFilters, then GetFilterOptions.
ServeFilters(c, method) ==
    IF MethodCheck("/api/filters", method) # 0
    THEN /\ fpc[c] = "idle"
         /\ served' = MkServed("/api/filters", method)
         /\ UNCHANGED <<now, reqVars, limVars, dbVars, nextSweep, hubVars,
                        subVars, qVars, cacheVars, fVars, delVars, respVars,
                        callVars, gRes, auxVars>>
    ELSE FilterCheckOf(c, MkServed("/api/filters", method))

\* The store is as it was when the call of c checked the cache.
Quiet(c) == fSeen[c] = StoreVersion(store, nextId)

\* A variant of NextColumn without the read of the hosts.
NextColumnSkipsHost(column) ==
    CASE column = "service" -> "level"
      [] column = "level" -> "update"
      [] column = "host" -> "update"

\* The order of the reads of GetFilterOptions.
NextColumn(column) ==
    CASE column = "service" -> "level"
      [] column = "level" -> "host"
      [] column = "host" -> "update"

SetOption(o, column, values) ==
    CASE column = "service" -> [o EXCEPT !.services = values]
      [] column = "level" -> [o EXCEPT !.levels = values]
      [] column = "host" -> [o EXCEPT !.hosts = values]

\* A variant of FilterRead that stores the options read so far in the
\* cache when a read fails.
FilterReadCachesPartial(c) ==
    /\ fpc[c] \in AllowedFilterColumns
    /\ \E fail \in BOOLEAN :
         LET d == getDistinctValues(store, fpc[c], fail)
             n == fReads[c] + (IF d.queried THEN 1 ELSE 0)
         IN IF d.err
            THEN /\ fLast' = MkCall(c, fAt[c], fExp[c], now, FALSE, TRUE, n,
                                    fOver[c], Quiet(c), fOpts[c])
                 /\ fpc' = [fpc EXCEPT ![c] = "idle"]
                 /\ fOver' = [e \in Callers |-> e # c /\ fpc[e] # "idle"]
                 /\ fOpts' = [fOpts EXCEPT ![c] = NoOptions]
                 /\ fAt' = [fAt EXCEPT ![c] = 0]
                 /\ fExp' = [fExp EXCEPT ![c] = 0]
                 /\ fSeen' = [fSeen EXCEPT ![c] = NoVersion]
                 /\ fReads' = [fReads EXCEPT ![c] = 0]
                 /\ cacheOptions' = fOpts[c]
                 /\ cacheExpires' = CacheExpiry(now)
            ELSE /\ fOpts' = [fOpts EXCEPT
                                ![c] = SetOption(@, fpc[c], d.values)]
                 /\ fpc' = [fpc EXCEPT ![c] = NextColumn(fpc[c])]
                 /\ fReads' = [fReads EXCEPT ![c] = n]
                 /\ UNCHANGED <<fLast, fOver, fAt, fExp, fSeen, cacheVars>>
    /\ UNCHANGED <<now, reqVars, limVars, dbVars, nextSweep, hubVars, subVars,
                   qVars, delVars,
                   respVars, callVars, gRes, served, auxVars>>

\* GetFilterOptions, one of the three reads: an error returns it with the
\* options read so far and leaves the cache alone.
FilterRead(c) ==
    /\ fpc[c] \in AllowedFilterColumns
    /\ \E fail \in BOOLEAN :
         LET d == getDistinctValues(store, fpc[c], fail)
             n == fReads[c] + (IF d.queried THEN 1 ELSE 0)
         IN IF d.err
            THEN /\ fLast' = MkCall(c, fAt[c], fExp[c], now, FALSE, TRUE, n,
                                    fOver[c], Quiet(c), fOpts[c])
                 /\ fpc' = [fpc EXCEPT ![c] = "idle"]
                 /\ fOver' = [e \in Callers |-> e # c /\ fpc[e] # "idle"]
                 /\ fOpts' = [fOpts EXCEPT ![c] = NoOptions]
                 /\ fAt' = [fAt EXCEPT ![c] = 0]
                 /\ fExp' = [fExp EXCEPT ![c] = 0]
                 /\ fSeen' = [fSeen EXCEPT ![c] = NoVersion]
                 /\ fReads' = [fReads EXCEPT ![c] = 0]
            ELSE /\ fOpts' = [fOpts EXCEPT
                                ![c] = SetOption(@, fpc[c], d.values)]
                 /\ fpc' = [fpc EXCEPT ![c] = NextColumn(fpc[c])]
                 /\ fReads' = [fReads EXCEPT ![c] = n]
                 /\ UNCHANGED <<fLast, fOver, fAt, fExp, fSeen>>
    /\ UNCHANGED <<now, reqVars, limVars, dbVars, nextSweep, hubVars, subVars,
                   qVars, cacheVars, delVars,
                   respVars, callVars, gRes, served, auxVars>>

\* A variant of FilterUpdate that leaves the options of the cache as they
\* are.
FilterUpdateKeepsOptions(c) ==
    /\ fpc[c] = "update"
    /\ UNCHANGED cacheOptions
    /\ cacheExpires' = CacheExpiry(now)
    /\ fLast' = MkCall(c, fAt[c], fExp[c], now, FALSE, FALSE, fReads[c],
                       fOver[c], Quiet(c), fOpts[c])
    /\ fpc' = [fpc EXCEPT ![c] = "idle"]
    /\ fOver' = [e \in Callers |-> e # c /\ fpc[e] # "idle"]
    /\ fOpts' = [fOpts EXCEPT ![c] = NoOptions]
    /\ fAt' = [fAt EXCEPT ![c] = 0]
    /\ fExp' = [fExp EXCEPT ![c] = 0]
    /\ fSeen' = [fSeen EXCEPT ![c] = NoVersion]
    /\ fReads' = [fReads EXCEPT ![c] = 0]
    /\ UNCHANGED <<now, reqVars, limVars, dbVars, nextSweep, hubVars, subVars,
                   qVars, delVars,
                   respVars, callVars, gRes, served, auxVars>>

\* GetFilterOptions, the update under Lock, and the return.
FilterUpdate(c) ==
    /\ fpc[c] = "update"
    /\ cacheOptions' = fOpts[c]
    /\ cacheExpires' = CacheExpiry(now)
    /\ fLast' = MkCall(c, fAt[c], fExp[c], now, FALSE, FALSE, fReads[c],
                       fOver[c], Quiet(c), fOpts[c])
    /\ fpc' = [fpc EXCEPT ![c] = "idle"]
    /\ fOver' = [e \in Callers |-> e # c /\ fpc[e] # "idle"]
    /\ fOpts' = [fOpts EXCEPT ![c] = NoOptions]
    /\ fAt' = [fAt EXCEPT ![c] = 0]
    /\ fExp' = [fExp EXCEPT ![c] = 0]
    /\ fSeen' = [fSeen EXCEPT ![c] = NoVersion]
    /\ fReads' = [fReads EXCEPT ![c] = 0]
    /\ UNCHANGED <<now, reqVars, limVars, dbVars, nextSweep, hubVars, subVars,
                   qVars, delVars,
                   respVars, callVars, gRes, served, auxVars>>

\* DB.DeleteOldLogs, called with a duration.
DeleteArgs == 0..2

CallDeleteOldLogs(olderThan) ==
    /\ LET res == DeleteOldLogs(store, now, olderThan)
       IN /\ store' = res.store
          /\ delCount' = res.deleted
    /\ delArg' = olderThan
    /\ delFlip' = ~delFlip
    /\ UNCHANGED <<cleanupErr, now, reqVars, limVars, nextId, committed,
                   nextSweep, hubVars, subVars, qVars, cacheVars, fVars,
                   respVars, callVars, gRes, served, auxVars>>

\* The column names getDistinctValues is called with: the three columns of
\* the filters, another column of the table, and the names of
\* TestGetDistinctValues_InvalidColumn.
DistinctColumns ==
    AllowedFilterColumns \cup
        {"message", "Service", "invalid_column", "service; DROP TABLE logs; --"}

\* DB.getDistinctValues, called with a column name.
CallGetDistinctValues(column) ==
    /\ \E fail \in BOOLEAN :
         gRes' = MkDistinct(column, fail,
                            getDistinctValues(store, column, fail))
    /\ UNCHANGED <<now, reqVars, limVars, dbVars, nextSweep, hubVars, subVars,
                   qVars, cacheVars, fVars, delVars, respVars, callVars,
                   served, auxVars>>

\* The store and the calls of getDistinctValues.
DistinctNext ==
    \/ \E l \in SampleLogs : StoreLog(l)
    \/ \E column \in DistinctColumns : CallGetDistinctValues(column)

DistinctSpec == Init /\ [][DistinctNext]_vars

\* The bodies that try the order of the validation.
BodyBadOrder ==
    [kind |-> "array",
     logs |-> << MkLog(1, S_api, S_blank, <<>>, S_h1),
                 MkLog(1, <<>>, S_INFO, <<"m", "6">>, S_h1) >>]
BodyAllBlank ==
    [kind |-> "object", log |-> MkLog(0, <<"\t">>, <<>>, S_blank, <<>>)]
BodyBadThird ==
    [kind |-> "array",
     logs |-> << MkLog(1, S_api, S_INFO, <<"m", "7">>, S_h1),
                 MkLog(0, S_web, S_ERROR, <<"m", "8">>, <<>>),
                 MkLog(2, S_web, S_ERROR, <<" ", "\n">>, S_h1) >>]

ValidationBodies ==
    Bodies \cup {BodyBadOrder, BodyAllBlank, BodyBadThird}

\* handleIngest over bodies valid and invalid.
ValidateNext ==
    \/ \E r \in Reqs : IngestStart(r)
    \/ \E r \in Reqs : GetLimiterLoad(r)
    \/ \E r \in Reqs : GetLimiterStore(r)
    \/ \E r \in Reqs : IngestRateLimit(r)
    \/ \E r \in Reqs : IngestDecodeOf(r, ValidationBodies)
    \/ \E r \in Reqs : IngestInsert(r)
    \/ \E r \in Reqs : IngestBroadcast(r)
    \/ HubReceive

ValidateSpec == Init /\ [][ValidateNext]_vars

\* The store under inserts and retention deletes, and the clock.
StoreNext ==
    \/ \E l \in SampleLogs : StoreLog(l)
    \/ \E d \in DeleteArgs : CallDeleteOldLogs(d)
    \/ Tick

StoreSpec == Init /\ [][StoreNext]_vars

\* The rows stored around the calls of GetFilterOptions.
CacheLogs ==
    { MkLog(1, S_web, S_INFO, <<"a">>, S_h1),
      MkLog(2, S_api, S_ERROR, <<"b">>, <<>>) }

\* One caller of GetFilterOptions at a time.
CacheCallers == {"f1"}

\* The store, the sweep, the filter cache and the clock.
CacheNext ==
    \/ \E l \in CacheLogs : Len(store) < Cardinality(CacheLogs) /\ StoreLog(l)
    \/ Sweep
    \/ \E c \in CacheCallers : FilterCheck(c)
    \/ \E c \in CacheCallers : FilterRead(c)
    \/ \E c \in CacheCallers : FilterUpdate(c)
    \/ Tick

CacheSpec == Init /\ [][CacheNext]_vars

\* The clock beside the sweeper: a sweep is over within five minutes, so
\* that no interval of the ticker passes while a sweep is due.
SweeperTick == now < nextSweep /\ Tick

\* The sweeper over a store that grows.
SweeperNext ==
    \/ \E l \in SampleLogs : StoreLog(l)
    \/ Sweep
    \/ SweeperTick

\* The goroutine of cleanupRoutine is scheduled and time passes.
SweeperFairness == WF_vars(Sweep) /\ WF_vars(SweeperTick)

SweeperSpec == Init /\ [][SweeperNext]_vars /\ SweeperFairness

\* One ingestion request, one query and one read of the filter options
\* over a store that has a row, grows and is swept (by sweeps that do not
\* fail: a failed sweep leaves the store as it is).
ServerReqs == {"r1"}
ServerFilters == { MkFilter(S_api, <<>>, <<>>, NilTime, NilTime, 1, <<>>) }

ServerBodies == {BodyBatch}

ServerNext ==
    \/ \E l \in CacheLogs : nextId = 1 /\ StoreLog(l)
    \/ \E r \in ServerReqs : IngestStart(r)
    \/ \E r \in ServerReqs : GetLimiterLoad(r)
    \/ \E r \in ServerReqs : GetLimiterStore(r)
    \/ \E r \in ServerReqs : IngestRateLimit(r)
    \/ \E r \in ServerReqs : IngestDecodeOf(r, ServerBodies)
    \/ \E r \in ServerReqs : IngestInsert(r)
    \/ \E r \in ServerReqs : IngestBroadcast(r)
    \/ \E f \in ServerFilters : CallQueryLogs(f)
    \/ \E c \in CacheCallers : fLast = NoCall /\ FilterCheck(c)
    \/ \E c \in CacheCallers : FilterRead(c)
    \/ \E c \in CacheCallers : FilterUpdate(c)
    \/ CleanupStep(FALSE)
    \/ Tick

ServerSpec == Init /\ [][ServerNext]_vars

\* ------------------------------------------------------------- metadata

\* JSON texts of the metadata field of an entry: the field left out, null,
\* a string, a number by its decimal digits, an object by its members.
JAbsent == [t |-> "absent"]
JNull == [t |-> "null"]
JStr(s) == [t |-> "str", s |-> s]
JNum(d) == [t |-> "num", d |-> d]
JObj(kv) == [t |-> "obj", kv |-> kv]

\* The numbers of the documents: 1 and 2^53 + 1.
BigNumber == "9007199254740993"
MetaNumbers == {"1", BigNumber}

\* strconv.ParseFloat(d, 64) as strconv.FormatFloat writes it back: the
\* float64 nearest to the decimal d.  2^53 + 1 lies between the float64s
\* 2^53 and 2^53 + 2 and is rounded to the even one; 1 is a float64.
ParseFloat(d) == IF d = BigNumber THEN "9007199254740992" ELSE d

\* json.Unmarshal into an interface{}: a string for a JSON string, a
\* float64 for a JSON number, a map[string]interface{} for a JSON object,
\* nil for null.
RECURSIVE UnmarshalValue(_)
UnmarshalValue(j) ==
    CASE j.t = "str" -> [t |-> "string", s |-> j.s]
      [] j.t = "num" -> [t |-> "float64", d |-> ParseFloat(j.d)]
      [] j.t = "obj" ->
           [t |-> "map", kv |-> [k \in DOMAIN j.kv |-> UnmarshalValue(j.kv[k])]]
      [] OTHER -> [t |-> "nil"]

\* json.Unmarshal of an entry into models.Log: the field Metadata stays
\* nil when the body leaves metadata out.
DecodeMetadata(j) == IF j = JAbsent THEN [t |-> "nil"] ELSE UnmarshalValue(j)

\* json.Marshal of a value that json.Unmarshal made; it returns no error
\* for such a value.
RECURSIVE MarshalValue(_)
MarshalValue(g) ==
    CASE g.t = "string" -> JStr(g.s)
      [] g.t = "float64" -> JNum(g.d)
      [] g.t = "map" -> JObj([k \in DOMAIN g.kv |-> MarshalValue(g.kv[k])])
      [] OTHER -> JNull

\* The metadata column of a row: NULL, or the JSON text of the document.
NullBlob == [t |-> "NULL"]
Blob(j) == [t |-> "blob", doc |-> j]

\* DB.InsertLog and DB.InsertBatch: metadataJSON stays nil for a nil
\* Metadata and is json.Marshal(Metadata) otherwise.
MetadataJSON(g) == IF g.t = "nil" THEN NullBlob ELSE Blob(MarshalValue(g))

\* DB.QueryLogs: rows.Scan into metadataJSON, then json.Unmarshal into
\* log.Metadata when len(metadataJSON) > 0; every JSON text has a byte.
ScanMetadata(b) ==
    IF b = NullBlob THEN [t |-> "nil"] ELSE UnmarshalValue(b.doc)

\* json.Encoder.Encode of a models.Log: omitempty leaves the field
\* metadata out for a nil or empty map.
EncodeMetadata(g) ==
    IF g.t = "nil" \/ (g.t = "map" /\ DOMAIN g.kv = {}) THEN JAbsent
    ELSE MarshalValue(g)

\* The documents requests come with: none, null, the empty object, flat
\* and nested objects, an object with numbers.
MetaDocs ==
    { JAbsent, JNull, JObj(<<>>),
      JObj([k \in {"key1"} |-> JStr("value1")]),
      JObj([k \in {"key2", "nested"} |->
              IF k = "key2" THEN JStr("value2")
              ELSE JObj([i \in {"inner"} |-> JStr("data")])]) }
    \cup { JObj([k \in {"n"} |-> JNum(d)]) : d \in MetaNumbers }

\* The rows the metadata column is followed over.
MaxMetaRows == 2

\* The bodies of the requests: one entry or a batch of two.
MetaBodies == { <<j>> : j \in MetaDocs } \cup (MetaDocs \X MetaDocs)

\* handleIngest and DB.InsertLog (one entry) or DB.InsertBatch (several):
\* the metadata of the entries of a body, decoded and stored.
IngestMetadata(docs) ==
    /\ Len(meta.rows) + Len(docs) <= MaxMetaRows
    /\ meta' = [meta EXCEPT
                  !.rows = @ \o [i \in 1..Len(docs) |->
                                   MetadataJSON(DecodeMetadata(docs[i]))],
                  !.sent = @ \o docs,
                  !.batch = @ \o [i \in 1..Len(docs) |-> Len(docs) > 1]]
    /\ UNCHANGED <<now, reqVars, limVars, dbVars, nextSweep, hubVars, subVars,
                   qVars, cacheVars, fVars, delVars, respVars, callVars,
                   gRes, served, ipCall, ctxCall, proc, hb, trace>>

\* handleQueryLogs and DB.QueryLogs: the metadata of the rows, scanned and
\* encoded in the response.
QueryMetadata ==
    /\ meta.rows # <<>>
    /\ meta' = [meta EXCEPT
                  !.out = [i \in 1..Len(meta.rows) |->
                             EncodeMetadata(ScanMetadata(meta.rows[i]))]]
    /\ UNCHANGED <<now, reqVars, limVars, dbVars, nextSweep, hubVars, subVars,
                   qVars, cacheVars, fVars, delVars, respVars, callVars,
                   gRes, served, ipCall, ctxCall, proc, hb, trace>>

MetaNext ==
    \/ \E docs \in MetaBodies : IngestMetadata(docs)
    \/ QueryMetadata

MetaSpec == Init /\ [][MetaNext]_vars

\* ---------------------------------------------------------- getClientIP

\* The longest generated header and connection address.
MaxAddrLen == 3

\* Every text of at most n characters of the alphabet.
TextsUpTo(alphabet, n) == UNION { [1..k -> alphabet] : k \in 0..n }

\* The values of X-Forwarded-For (empty when the header is not set) and of
\* RemoteAddr: generated ones, and bracketed IPv6 addresses.
ForwardedHeaders == TextsUpTo({"1", "2", ",", " "}, MaxAddrLen)
RemoteAddrs ==
    TextsUpTo({"1", ":"}, MaxAddrLen)
        \cup { <<"[", ":", ":", "1", "]", ":", "8", "0">>,
               <<"[", ":", ":", "1", "]">>,
               <<"1", ".", "2", ":", "8", "0">>,
               <<"1", ".", "2">> }

\* One call of getClientIP.
CallGetClientIP(xff, remoteAddr) ==
    /\ ~ipCall.called
    /\ ipCall' = MkIPCall(xff, remoteAddr)
    /\ UNCHANGED <<now, reqVars, limVars, dbVars, nextSweep, hubVars, subVars,
                   qVars, cacheVars, fVars, delVars, respVars, callVars,
                   gRes, served, meta, ctxCall, proc, hb, trace>>

ClientIPNext ==
    \E xff \in ForwardedHeaders, a \in RemoteAddrs : CallGetClientIP(xff, a)

ClientIPSpec == Init /\ [][ClientIPNext]_vars

\* ------------------------------------------------- calls with a context

\* The filters the calls with a context query with.
ContextFilters ==
    { MkFilter(<<>>, <<>>, <<>>, NilTime, NilTime, 0, <<>>),
      MkFilter(S_api, <<>>, <<>>, NilTime, NilTime, 1, <<>>) }

\* DB.InsertLog(ctx, &log), the context cancelled before the call or not.
CallInsertLog(done, l) ==
    /\ Len(store) < MaxRows
    /\ nextId <= MaxRows
    /\ \E failAt \in 0..1 :
         LET res == InsertLogContext(done, store, nextId, l, failAt)
         IN /\ store' = res.store
            /\ nextId' = res.nextId
            /\ committed' =
                 committed \cup {EntryOf(x) : x \in Range(res.store)}
            /\ ctxCall' =
                 MkCtxCall("InsertLog", done, res.err, <<>>, ~ctxCall.flip)
    /\ UNCHANGED <<now, reqVars, limVars, nextSweep, hubVars, subVars, qVars,
                   cacheVars, fVars, delVars, respVars, callVars,
                   gRes, served, meta, ipCall, proc, hb, trace>>

\* DB.QueryLogs(ctx, filter), the context cancelled before the call or not.
CallQueryLogsContext(done, f) ==
    /\ \E res \in QueryLogsContext(done, store, f) :
         ctxCall' =
             MkCtxCall("QueryLogs", done, res.err, res.logs, ~ctxCall.flip)
    /\ UNCHANGED <<now, reqVars, limVars, dbVars, nextSweep, hubVars, subVars,
                   qVars, cacheVars, fVars, delVars, respVars, callVars,
                   gRes, served, meta, ipCall, proc, hb, trace>>

ContextNext ==
    \/ \E done \in BOOLEAN, l \in SampleLogs : CallInsertLog(done, l)
    \/ \E done \in BOOLEAN, f \in ContextFilters :
         CallQueryLogsContext(done, f)

ContextSpec == Init /\ [][ContextNext]_vars

\* Two calls of GetFilterOptions that both miss the cache, beside an
\* insert, the sweeps (which do not fail) and the clock.
RaceNext ==
    \/ \E l \in CacheLogs : nextId = 1 /\ StoreLog(l)
    \/ CleanupStep(FALSE)
    \/ \E c \in Callers : fLast = NoCall /\ FilterCheck(c)
    \/ \E c \in Callers : FilterRead(c)
    \/ \E c \in Callers : FilterUpdate(c)
    \/ Tick

RaceSpec == Init /\ [][RaceNext]_vars

\* --------------------------------------------------------------- shutdown

\* The signal goroutine of main: a signal comes and httpServer.Shutdown is
\* called, which closes the listener and waits for the handlers.
ShutdownBegin ==
    /\ proc.shutdown = "idle"
    /\ ~proc.exited
    /\ proc' = [proc EXCEPT !.listening = FALSE, !.shutdown = "waiting",
                            !.writing = {r \in Reqs : rpc[r] = "insert"},
                            !.queued = hubBroadcast]
    /\ UNCHANGED <<now, reqVars, limVars, dbVars, nextSweep, hubVars, subVars,
                   qVars, cacheVars, fVars, delVars, respVars, callVars,
                   gRes, served, meta, ipCall, ctxCall,
                   hb, trace>>

\* httpServer.Shutdown returns when no handler is running.  No time passes
\* here, so the 30 seconds of its context are never over.
ShutdownReturn ==
    /\ proc.shutdown = "waiting"
    /\ ~proc.exited
    /\ \A r \in Reqs : rpc[r] \in {"idle", "done"}
    /\ proc' = [proc EXCEPT !.shutdown = "returned"]
    /\ UNCHANGED <<now, reqVars, limVars, dbVars, nextSweep, hubVars, subVars,
                   qVars, cacheVars, fVars, delVars, respVars, callVars,
                   gRes, served, meta, ipCall, ctxCall,
                   hb, trace>>

\* main: ListenAndServe returns http.ErrServerClosed as soon as Shutdown
\* has closed the listener; main logs "server stopped" and returns, and
\* the deferred database.Close() runs.
MainReturn ==
    /\ ~proc.listening
    /\ ~proc.closed
    /\ proc' = [proc EXCEPT !.closed = TRUE]
    /\ UNCHANGED <<now, reqVars, limVars, dbVars, nextSweep, hubVars, subVars,
                   qVars, cacheVars, fVars, delVars, respVars, callVars,
                   gRes, served, meta, ipCall, ctxCall,
                   hb, trace>>

\* main has returned: the process exits and its goroutines with it.
ProcessExit ==
    /\ proc.closed
    /\ ~proc.exited
    /\ proc' = [proc EXCEPT !.exited = TRUE]
    /\ UNCHANGED <<now, reqVars, limVars, dbVars, nextSweep, hubVars, subVars,
                   qVars, cacheVars, fVars, delVars, respVars, callVars,
                   gRes, served, meta, ipCall, ctxCall,
                   hb, trace>>

\* One ingestion request and the hub beside the shutdown: requests come in
\* while the listener is open, an insert on the closed store returns an
\* error, and nothing runs once the process has exited.
ShutdownNext ==
    \/ \E r \in ServerReqs : proc.listening /\ IngestStart(r)
    \/ \E r \in ServerReqs : ~proc.exited /\ GetLimiterLoad(r)
    \/ \E r \in ServerReqs : ~proc.exited /\ GetLimiterStore(r)
    \/ \E r \in ServerReqs : ~proc.exited /\ IngestRateLimit(r)
    \/ \E r \in ServerReqs : ~proc.exited /\ IngestDecode(r)
    \/ \E r \in ServerReqs :
         /\ ~proc.exited
         /\ IngestInsert(r)
         /\ proc.closed => status'[r] = 500
    \/ \E r \in ServerReqs : ~proc.exited /\ IngestBroadcast(r)
    \/ ~proc.exited /\ HubReceive
    \/ ShutdownBegin
    \/ ShutdownReturn
    \/ MainReturn
    \/ ProcessExit

ShutdownSpec == Init /\ [][ShutdownNext]_vars

\* Ingestion of payloads with and without an "id", over a store that had
\* a row before, with the hub, the clock and the sweep.
BodyClientID ==
    [kind |-> "object",
     log |-> WithID(MkLog(2, S_api, S_INFO, <<"m", "9">>, S_h1), 5)]

IdBodies == {BodyClientID, BodyBatch}

IdNext ==
    \/ \E l \in CacheLogs : nextId = 1 /\ StoreLog(l)
    \/ \E r \in ServerReqs : IngestStart(r)
    \/ \E r \in ServerReqs : GetLimiterLoad(r)
    \/ \E r \in ServerReqs : GetLimiterStore(r)
    \/ \E r \in ServerReqs : IngestRateLimit(r)
    \/ \E r \in ServerReqs : IngestDecodeOf(r, IdBodies)
    \/ \E r \in ServerReqs : IngestInsert(r)
    \/ \E r \in ServerReqs : IngestBroadcast(r)
    \/ HubReceive
    \/ CleanupStep(FALSE)
    \/ Tick

IdSpec == Init /\ [][IdNext]_vars

\* Requests of every method to the three paths of the API, over a store that
\* grows: the routes of main behind corsMiddleware.
MethodBodies == {BodySingle}
MethodParams ==
    {NoParams, MkParams(S_api, <<>>, <<>>, <<>>, <<"x">>, <<>>, <<>>)}

MethodNext ==
    \/ \E r \in Reqs, ip \in IPs, m \in Methods :
         (m = "POST" => r \in ServerReqs) /\ ServeIngest(r, ip, m)
    \/ \E r \in ServerReqs : GetLimiterLoad(r)
    \/ \E r \in ServerReqs : GetLimiterStore(r)
    \/ \E r \in ServerReqs : IngestRateLimit(r)
    \/ \E r \in ServerReqs : IngestDecodeOf(r, MethodBodies)
    \/ \E r \in ServerReqs : IngestInsert(r)
    \/ \E r \in ServerReqs : IngestBroadcast(r)
    \/ HubReceive
    \/ \E m \in Methods, q \in MethodParams :
         (m = "GET" => qpc = "idle" /\ store # <<>>) /\ ServeQueryLogs(m, q)
    \/ \E c \in CacheCallers, m \in Methods :
         (m = "GET" => fLast = NoCall) /\ ServeFilters(c, m)
    \/ \E c \in CacheCallers : FilterRead(c)
    \/ \E c \in CacheCallers : FilterUpdate(c)

MethodSpec == Init /\ [][MethodNext]_vars

\* Ingestion of an entry with a timestamp of the first instant and of an
\* entry with none, at any time, beside the sweeps, the hub and queries
\* with no predicate.
RetentionBodies ==
    {BodySingle,
     [kind |-> "object", log |-> MkLog(0, S_web, S_INFO, <<"m", "0">>, S_h1)]}

RetentionFilters ==
    { MkFilter(<<>>, <<>>, <<>>, NilTime, NilTime, 0, <<>>) }

RetentionNext ==
    \/ \E r \in ServerReqs : IngestStart(r)
    \/ \E r \in ServerReqs : GetLimiterLoad(r)
    \/ \E r \in ServerReqs : GetLimiterStore(r)
    \/ \E r \in ServerReqs : IngestRateLimit(r)
    \/ \E r \in ServerReqs : IngestDecodeOf(r, RetentionBodies)
    \/ \E r \in ServerReqs : IngestInsert(r)
    \/ \E r \in ServerReqs : IngestBroadcast(r)
    \/ HubReceive
    \/ \E f \in RetentionFilters : CallQueryLogs(f)
    \/ Sweep
    \/ Tick

RetentionSpec == Init /\ [][RetentionNext]_vars

\* Requests of every method to /api/ingest, with every body, from clients
\* that share a limiter or not, and the hub taking the messages.
SubmitNext ==
    \/ \E r \in AllReqs, ip \in IPs, m \in Methods :
         (m = "POST" => r \in Reqs) /\ ServeIngest(r, ip, m)
    \/ \E r \in Reqs : GetLimiterLoad(r)
    \/ \E r \in Reqs : GetLimiterStore(r)
    \/ \E r \in Reqs : IngestRateLimit(r)
    \/ \E r \in Reqs : IngestDecode(r)
    \/ \E r \in Reqs : IngestInsert(r)
    \/ \E r \in Reqs : IngestBroadcast(r)
    \/ HubReceive

SubmitSpec == Init /\ [][SubmitNext]_vars

\* The ingestion pipeline with the clock and the sweep; no WebSocket client
\* connects.
Next ==
    \/ \E r \in Reqs : IngestStart(r)
    \/ \E r \in Reqs : GetLimiterLoad(r)
    \/ \E r \in Reqs : GetLimiterStore(r)
    \/ \E r \in Reqs : IngestRateLimit(r)
    \/ \E r \in Reqs : IngestDecode(r)
    \/ \E r \in Reqs : IngestInsert(r)
    \/ \E r \in Reqs : IngestBroadcast(r)
    \/ HubReceive
    \/ Tick
    \/ Sweep

Spec == Init /\ [][Next]_vars

\* The ingestion pipeline with the hub and its WebSocket clients, within one
\* tick of the clock.
HubNext ==
    \/ \E r \in Reqs : IngestStart(r)
    \/ \E r \in Reqs : GetLimiterLoad(r)
    \/ \E r \in Reqs : GetLimiterStore(r)
    \/ \E r \in Reqs : IngestRateLimit(r)
    \/ \E r \in Reqs : IngestDecode(r)
    \/ \E r \in Reqs : IngestInsert(r)
    \/ \E r \in Reqs : IngestBroadcast(r)
    \/ \E c \in Subs : HubRegister(c)
    \/ \E c \in Subs : ReadPumpExit(c)
    \/ \E c \in Subs : HubUnregister(c)
    \/ HubReceive
    \/ \E c \in Subs : HubDeliver(c)
    \/ \E c \in Subs : WritePumpWrite(c)
    \/ \E c \in Subs : WritePumpClosed(c)

HubSpec == Init /\ [][HubNext]_vars

\* The connections with their read deadline and their pings; no message is
\* broadcast.  Time passes, the pumps and the hub are scheduled.
HeartbeatNext ==
    \/ \E c \in Subs : HubRegister(c)
    \/ \E c \in Subs : HeartbeatTick(c)
    \/ \E c \in Subs : WritePumpPing(c)
    \/ \E c \in Subs : ReadPumpPong(c)
    \/ \E c \in Subs : ReadPumpTimeout(c)
    \/ \E c \in Subs : ReadPumpClosed(c)
    \/ \E c \in Subs : HubUnregister(c)
    \/ \E c \in Subs : WritePumpClosed(c)

HeartbeatFairness ==
    \A c \in Subs :
        /\ WF_vars(HeartbeatTick(c))
        /\ WF_vars(WritePumpPing(c))
        /\ WF_vars(ReadPumpPong(c))
        /\ WF_vars(ReadPumpTimeout(c))
        /\ WF_vars(ReadPumpClosed(c))
        /\ WF_vars(HubUnregister(c))

HeartbeatSpec == Init /\ [][HeartbeatNext]_vars /\ HeartbeatFairness

\* The hub goroutine is always scheduled; a handler blocked in the send on
\* wsHub.broadcast is served when the hub receives (Go queues the blocked
\* senders of a channel in order).
LiveSubs == {"s1"}

HubStep == HubReceive \/ \E c \in Subs : HubDeliver(c)

HubFairness ==
    /\ WF_vars(HubStep)
    /\ \A r \in AllReqs : SF_vars(IngestBroadcast(r))

\* The requests of HubLiveSpec come from two different clients.
ClientOf == [r \in AllReqs |-> CHOOSE ip \in AllIPs :
                 <<r, ip>> \in {<<"r1", "ipA">>, <<"r2", "ipB">>,
                                <<"r3", "ipC">>, <<"r4", "ipD">>}]

HubLiveNext ==
    \/ \E r \in AllReqs : IngestStartFrom(r, ClientOf[r])
    \/ \E r \in AllReqs : GetLimiterLoad(r)
    \/ \E r \in AllReqs : GetLimiterStore(r)
    \/ \E r \in AllReqs : IngestRateLimit(r)
    \/ \E r \in AllReqs : IngestDecodeOf(r, {BodySingle})
    \/ \E r \in AllReqs : IngestInsert(r)
    \/ \E r \in AllReqs : IngestBroadcast(r)
    \/ \E c \in LiveSubs : HubRegister(c)
    \/ \E c \in LiveSubs : ReadPumpExit(c)
    \/ \E c \in LiveSubs : HubUnregister(c)
    \/ HubReceive
    \/ \E c \in LiveSubs : HubDeliver(c)
    \/ \E c \in LiveSubs : WritePumpWrite(c)
    \/ \E c \in LiveSubs : WritePumpClosed(c)

HubLiveSpec == Init /\ [][HubLiveNext]_vars /\ HubFairness

\* The hub with handlers that wait at the send on wsHub.register, read
\* pumps that wait at the send on wsHub.unregister and ingestion handlers
\* that wait at the send on wsHub.broadcast.  Only the hub goroutine is
\* scheduled for ever, and the senders blocked on wsHub.broadcast are served
\* in turn; the pumps and the peers may stop at any moment.
CoordinatorStep ==
    \/ HubReceive
    \/ \E c \in Subs : HubDeliver(c)
    \/ \E c \in Subs : HubUnregister(c)
    \/ \E c \in Subs : HubRegisterWaiting(c)

CoordinatorFairness ==
    /\ WF_vars(CoordinatorStep)
    /\ \A r \in Reqs : SF_vars(IngestBroadcast(r))

CoordinatorNext ==
    \/ \E r \in Reqs : IngestStartFrom(r, ClientOf[r])
    \/ \E r \in Reqs : GetLimiterLoad(r)
    \/ \E r \in Reqs : GetLimiterStore(r)
    \/ \E r \in Reqs : IngestRateLimit(r)
    \/ \E r \in Reqs : IngestDecodeOf(r, {BodySingle})
    \/ \E r \in Reqs : IngestInsert(r)
    \/ \E r \in Reqs : IngestBroadcast(r)
    \/ \E c \in Subs : HandleWebSocket(c)
    \/ \E c \in Subs : HubRegisterWaiting(c)
    \/ \E c \in Subs : ReadPumpExit(c)
    \/ \E c \in Subs : HubUnregister(c)
    \/ HubReceive
    \/ \E c \in Subs : HubDeliver(c)
    \/ \E c \in Subs : WritePumpWrite(c)
    \/ \E c \in Subs : WritePumpClosed(c)

CoordinatorSpec ==
    WatchInit /\ [][CoordinatorNext]_vars /\ CoordinatorFairness

\* The hub with its connections and three requests, each from a client of
\* its own; the history of the hub is recorded.
TraceReqs == {"r1", "r2", "r3"}

TraceNext ==
    \/ \E r \in TraceReqs : IngestStartFrom(r, ClientOf[r])
    \/ \E r \in TraceReqs : GetLimiterLoad(r)
    \/ \E r \in TraceReqs : GetLimiterStore(r)
    \/ \E r \in TraceReqs : IngestRateLimit(r)
    \/ \E r \in TraceReqs : IngestDecodeOf(r, {BodySingle})
    \/ \E r \in TraceReqs : IngestInsert(r)
    \/ \E r \in TraceReqs : IngestBroadcast(r)
    \/ \E c \in Subs : HubRegister(c)
    \/ \E c \in Subs : ReadPumpExit(c)
    \/ \E c \in Subs : HubUnregister(c)
    \/ HubReceive
    \/ \E c \in Subs : HubDeliver(c)
    \/ \E c \in Subs : WritePumpWrite(c)
    \/ \E c \in Subs : WritePumpClosed(c)

TraceSpec == TraceInit /\ [][TraceNext]_vars

\* ----------------------------------------------------------------- claims

\* Every message held by the hub, by a send buffer or by a peer.
InFlight ==
    Range(hubBroadcast)
        \cup Range(hubMsg)
        \cup UNION {Range(send[c]) : c \in Subs}
        \cup UNION {Range(received[c]) : c \in Subs}

\* The JSON object obj of a payload is the entry l of a handler.
SameEntry(obj, l) ==
    /\ obj.id = l.ID
    /\ obj.timestamp = l.Timestamp
    /\ obj.service = l.Service
    /\ obj.level = l.Level
    /\ obj.message = l.Message
    /\ obj.host = l.Host

\* C1: a request that decodes to n entries adds n rows to the store or
\* none: n when it is answered 201, none when it is answered 400, 429 or
\* 500, and never between 1 and n - 1, whatever the other requests and the
\* sweep do.
C1_AllOrNothing ==
    \A r \in Reqs :
        /\ added[r] \in {0, Len(logs[r])}
        /\ (rpc[r] = "done" /\ status[r] # 201) => added[r] = 0
        /\ (rpc[r] = "broadcast" \/ status[r] = 201) => added[r] = Len(logs[r])

\* C1 witness: a batch of two was added whole, a sweep has since removed
\* one of its rows, and another batch of two failed in the store and added
\* nothing.
C1_Witness ==
    \E r, q \in Reqs :
        /\ status[r] = 201 /\ added[r] = 2
        /\ status[q] = 500 /\ Len(logs[q]) = 2 /\ added[q] = 0
        /\ Len(store) = 1

\* C2: every entry of a message in the hub's broadcast queue, in a send
\* buffer or received by a peer has been committed to the store before.
C2_PersistBeforeBroadcast ==
    \A m \in InFlight : \A i \in 1..Len(m) : EntryOf(m[i]) \in committed

\* C2 witness: a peer has received a batch of two entries.
C2_Witness ==
    \E c \in Subs : received[c] # <<>> /\ Len(received[c][1]) = 2

\* A request answered 429 is over and has done nothing else.
C3_Inv ==
    \A r \in Reqs :
        status[r] = 429 =>
            /\ rpc[r] = "done"
            /\ ~decoded[r]
            /\ logs[r] = <<>>
            /\ added[r] = 0
            /\ submitted[r] = 0

\* The step that denies a request.
C3_Step ==
    \A r \in Reqs :
        (rpc[r] = "allow" /\ tokens[rlim[r]] = 0) =>
            \/ UNCHANGED <<rpc[r], status[r]>>
            \/ /\ status'[r] = 429
               /\ rpc'[r] = "done"
               /\ UNCHANGED <<store, nextId, committed, hubVars, subVars,
                              decoded, logs, added, submitted>>

\* C3: a request the limiter denies is answered 429 in that step, which
\* leaves the store, the hub and every send buffer as they were; the
\* request is over, its body was never decoded, and it has added and
\* submitted nothing.
C3_DeniedHasNoEffect == [](C3_Inv) /\ [][C3_Step]_vars

\* C3 witness: a request was denied after one of the same ip was stored
\* and handed to the hub.
C3_Witness ==
    \E r, q \in Reqs :
        /\ status[r] = 429
        /\ status[q] = 201 /\ rip[q] = rip[r] /\ added[q] > 0

\* C4 (as claimed): the requests of one ip hold the same limiter, and no
\* more than Burst requests of one ip are admitted while the clock stands.
C4_OneBucketPerIdentity ==
    /\ \A r, q \in Reqs :
         (rip[r] = rip[q] /\ rlim[r] # NoLimiter /\ rlim[q] # NoLimiter)
            => rlim[r] = rlim[q]
    /\ \A ip \in IPs : admitted[ip] <= Burst

\* Every payload is the batch of a request answered 201.
C5_Payload ==
    \A m \in InFlight :
        \E r \in Reqs :
            /\ status[r] = 201
            /\ Len(m) = Len(logs[r])
            /\ \A i \in 1..Len(m) : SameEntry(m[i], logs[r][i])

\* A client that was unregistered is not in the live set.
C5_Unregistered ==
    \A c \in Subs : rp[c] = "done" => (c \notin hubClients /\ c \notin hubTodo)

\* The steps of the hub: the start of a broadcast, one iteration of its
\* range loop, an unregistration.
C5_Step ==
    /\ (hubPc = "select" /\ hubPc' = "deliver")
         => (hubTodo' = hubClients /\ hubMsg' = <<Head(hubBroadcast)>>)
    /\ \A c \in Subs :
         /\ (c \in hubTodo /\ c \notin hubTodo' /\ Len(send[c]) < SendCap)
              => (send'[c] = Append(send[c], hubMsg[1]) /\ c \in hubClients')
         /\ Len(send'[c]) > Len(send[c])
              => /\ c \in hubTodo /\ c \in hubClients
                 /\ send'[c] = Append(send[c], hubMsg[1])
         /\ (rp[c] = "unregister" /\ rp'[c] = "done")
              => /\ c \notin hubClients'
                 /\ Cardinality(hubClients') = Cardinality(hubClients \ {c})

\* C5: a payload is the entries of the batch of a request answered 201, in
\* their order; the range loop of a broadcast covers the clients of the
\* moment the message is received; only a client of the live set that the
\* loop visits is enqueued, and it is enqueued the message being broadcast;
\* a visited client with room is enqueued; an unregistered client is not in
\* the live set.
C5_BroadcastVerbatim ==
    [](C5_Payload /\ C5_Unregistered) /\ [][C5_Step]_vars

\* C5 witness: two peers have received the same batch of two entries.
C5_Witness ==
    \E c, d \in Subs :
        /\ c # d
        /\ received[c] # <<>> /\ Len(received[c][1]) = 2
        /\ received[d] = received[c]

\* The iteration of the range loop that finds a send buffer full.
C6_Step ==
    \A c \in Subs :
        (c \in hubTodo /\ c \notin hubTodo' /\ Len(send[c]) >= SendCap) =>
            /\ c \notin hubClients'
            /\ sendClosed'[c]
            /\ send'[c] = send[c]
            /\ \A d \in Subs \ {c} :
                 /\ d \in hubTodo => (d \in hubTodo' /\ d \in hubClients')
                 /\ d \in hubClients <=> d \in hubClients'
                 /\ send'[d] = send[d]
                 /\ sendClosed'[d] = sendClosed[d]

\* The range loop visits live clients only, and only inside a broadcast.
C6_Inv ==
    /\ hubTodo \subseteq hubClients
    /\ (hubPc = "deliver") <=> (hubTodo # {})

\* C6: the iteration that finds a client's send buffer full removes the
\* client from the live set and closes its buffer in that step, and
\* changes nothing of any other client: the others not yet visited stay
\* live and stay to be visited.
C6_FullQueueEvicts == [](C6_Inv) /\ [][C6_Step]_vars

\* C6 witness: a client was evicted with its buffer full (it never asked
\* to unregister) while another client was enqueued the message of that
\* broadcast after having received the one before.
C6_Witness ==
    \E c, d \in Subs :
        /\ sendClosed[c] /\ rp[c] = "reading" /\ c \notin hubClients
        /\ Len(send[c]) = SendCap
        /\ d \in hubClients /\ received[d] = send[c] /\ send[d] # <<>>
        /\ send[d] # send[c]
        /\ hubPc = "select"

\* A request leaves the send on wsHub.broadcast answered 201.
C7_Step ==
    \A r \in AllReqs :
        (rpc[r] = "broadcast" /\ rpc'[r] # "broadcast")
            => (rpc'[r] = "done" /\ status'[r] = 201)

\* C7: a request whose insert succeeded does not wait for the hub for ever,
\* and the only way it leaves the send on wsHub.broadcast is answered 201,
\* whatever the clients do.
C7_IngestAnswered ==
    /\ \A r \in AllReqs : []<>(rpc[r] # "broadcast")
    /\ [][C7_Step]_vars

\* C7 witness: a request was answered 201 by the time a client had been
\* evicted for a full buffer, with the other request stored as well.
C7_Witness ==
    \E r, q \in Reqs : \E c \in Subs :
        /\ r # q
        /\ status[r] = 201 /\ status[q] = 201
        /\ sendClosed[c] /\ rp[c] = "reading"

\* msg contains s as a literal substring, letters compared without regard
\* to case.
ContainsFold(msg, s) ==
    \E i \in 0..(Len(msg) - Len(s)) :
        \A k \in 1..Len(s) : ToLower(msg[i + k]) = ToLower(s[k])

\* The row satisfies every predicate set in the filter.
Satisfies(row, f) ==
    /\ f.Service # <<>> => row.service = f.Service
    /\ f.Level # <<>> => row.level = f.Level
    /\ f.Host # <<>> => row.host = f.Host
    /\ f.StartTime # NilTime => f.StartTime[1] <= row.timestamp
    /\ f.EndTime # NilTime => row.timestamp <= f.EndTime[1]
    /\ f.Search # <<>> => ContainsFold(row.message, f.Search)

\* C8 (as claimed): a query returns only rows that satisfy every predicate
\* set in its filter (equality on service, level and host, substring on
\* message, start <= timestamp <= end), and all of them when they are no
\* more than the limit.
C8_FilterExact ==
    (qpc = "done" /\ qStatus = 200) =>
        LET sat == {r \in Range(store) : Satisfies(r, qFilter)}
            limit == IF qFilter.Limit > 0 THEN qFilter.Limit ELSE DefaultLimit
        IN /\ Range(qResult) \subseteq sat
           /\ Cardinality(sat) <= limit => sat \subseteq Range(qResult)

\* C9: the rows a query returns are in non-increasing order of timestamp,
\* and no matching row left out is newer than a row returned.
C9_NewestFirst ==
    (qpc = "done" /\ qStatus = 200) =>
        /\ \A i \in 1..(Len(qResult) - 1) :
             qResult[i].timestamp >= qResult[i + 1].timestamp
        /\ \A r \in Range(store) :
             (Matches(r, qFilter) /\ r \notin Range(qResult))
                => \A k \in Range(qResult) : k.timestamp >= r.timestamp

\* C9 witness: a truncated result of two rows, the newer one first though
\* it was inserted later.
C9_Witness ==
    /\ qpc = "done" /\ qStatus = 200
    /\ Len(qResult) = 2
    /\ qResult[1].id > qResult[2].id
    /\ qResult[1].timestamp > qResult[2].timestamp
    /\ \E r \in Range(store) : Matches(r, qFilter) /\ r \notin Range(qResult)

\* A limit parameter that is a negative integer.
NegativeLiteral(s) ==
    /\ Len(s) >= 2
    /\ s[1] = "-"
    /\ \A i \in 2..Len(s) : s[i] \in Digits
    /\ \E i \in 2..Len(s) : s[i] # "0"

\* C10: a query with limit N > 0 returns at most N rows, also when N is
\* the limit parameter of GET /api/logs; a query with no limit, or limit 0,
\* returns at most the default number of rows; GET /api/logs with a
\* negative limit is answered 400 and returns nothing.
C10_Limit ==
    qpc = "done" =>
        /\ (qStatus = 200 /\ qFilter.Limit > 0)
             => Len(qResult) <= qFilter.Limit
        /\ (qStatus = 200 /\ qFilter.Limit <= 0)
             => Len(qResult) <= DefaultLimit
        /\ (qKind = "http" /\ qStatus = 200 /\ qParams.limit = <<>>)
             => Len(qResult) <= DefaultLimit
        /\ (qKind = "http" /\ qStatus = 200 /\ Len(qParams.limit) = 1
               /\ qParams.limit[1] \in Digits \ {"0"})
             => Len(qResult) <= DigitValue(qParams.limit[1])
        /\ (qKind = "http" /\ NegativeLiteral(qParams.limit))
             => (qStatus = 400 /\ qResult = <<>>)

\* C10 witness: GET /api/logs with no limit and no other parameter, over
\* more rows than the default limit, returned the default number of rows.
C10_Witness ==
    /\ qpc = "done" /\ qKind = "http" /\ qStatus = 200
    /\ qParams = NoParams
    /\ Len(store) > DefaultLimit
    /\ Len(qResult) = DefaultLimit

\* The distinct values of the three columns of a store, as a snapshot.
DistinctOf(st) ==
    MkOptions(
        Take(OrderByText({r.service : r \in Range(st)}), DistinctLimit),
        Take(OrderByText({r.level : r \in Range(st)}), DistinctLimit),
        Take(OrderByText({r.host : r \in Range(st)}), DistinctLimit))

\* A call that checked the cache before the expiry it saw was served from
\* the cache and ran no query, and only such a call is served from it.
C11_Inv ==
    fLast.who # "none" =>
        /\ fLast.at < fLast.expSeen => (fLast.hit /\ fLast.reads = 0)
        /\ fLast.hit => (fLast.at < fLast.expSeen /\ ~fLast.err)

\* A call made while the cache is fresh returns in that step what the
\* cache holds, starts no read and changes neither the cache nor the store.
C11_Step ==
    \A c \in Callers :
        (fpc[c] = "idle" /\ now < cacheExpires) =>
            /\ fpc'[c] = "idle"
            /\ (fLast' # fLast /\ fLast'.who = c) =>
                 /\ fLast'.result = cacheOptions
                 /\ fLast'.reads = 0
                 /\ ~fLast'.err
                 /\ UNCHANGED <<store, cacheOptions, cacheExpires>>

\* C11: while the current time is before the expiry of the cached
\* snapshot, GetFilterOptions returns exactly that snapshot and reads
\* nothing from the store, whatever was inserted or deleted since the
\* snapshot was taken.
C11_CachedWhileFresh == [](C11_Inv) /\ [][C11_Step]_vars

\* C11 witness: a call was served from the cache a snapshot that is no
\* longer what the store holds: a row with new values was inserted, a row
\* was deleted.
C11_Witness ==
    /\ fLast.hit
    /\ fLast.result = cacheOptions
    /\ fLast.doneAt = now
    /\ fLast.result.services # DistinctOf(store).services
    /\ Len(store) = 1 /\ nextId = 3

\* A call returns in this step, after the call that returned before it had
\* returned, and neither of the two failed.
ConsecutiveCalls ==
    /\ fLast' # fLast
    /\ fLast.who # "none"
    /\ ~fLast'.over
    /\ ~fLast.err /\ ~fLast'.err

ServedUntil(call) ==
    IF call.hit THEN call.expSeen ELSE call.doneAt + FilterCacheTTL

C13_DeleteExact ==
    [][delFlip' # delFlip =>
         LET c == now - delArg'
             stay == {r \in Range(store) : r.timestamp >= c}
         IN /\ Range(store') = stay
            /\ Len(store') = Cardinality(stay)
            /\ \A i, j \in 1..Len(store') :
                 i < j => store'[i].id < store'[j].id
            /\ delCount' = Len(store) - Len(store')
            /\ stay = Range(store) => (delCount' = 0 /\ store' = store)
            /\ nextId' = nextId]_vars

\* C13 witness: a call removed a row and kept another whose timestamp is
\* the cutoff itself.
C13_Witness ==
    /\ delCount = 1
    /\ nextId = Len(store) + 2
    /\ \E r \in Range(store) : r.timestamp = now - delArg

\* A text that is empty or all white space.
Blank(t) == \A i \in 1..Len(t) : t[i] \in Whitespace

\* The first of service, level and message that is blank in an entry.
FirstBlankField(l) ==
    IF Blank(l.Service) THEN "service"
    ELSE IF Blank(l.Level) THEN "level"
    ELSE IF Blank(l.Message) THEN "message"
    ELSE ""

\* The first entry of a batch with a blank field, counted from 1.
FirstBlankIndex(ls) ==
    CHOOSE k \in 1..Len(ls) :
        /\ FirstBlankField(ls[k]) # ""
        /\ \A j \in 1..(k - 1) : FirstBlankField(ls[j]) = ""

StampOf(raw, ts, from, upto) ==
    IF raw.Timestamp = 0 THEN from <= ts /\ ts <= upto
    ELSE ts = raw.Timestamp

\* The rows a step added to the store.
NewRows == SubSeq(store', Len(store) + 1, Len(store'))

\* While a call holds its validated entries, each has the timestamp of the
\* body, or one between the beginning of the call and now when the body
\* had none.
C15_Inv ==
    \A r \in Reqs :
        rawLogs[r] # <<>> =>
            /\ Len(logs[r]) = Len(rawLogs[r])
            /\ \A i \in 1..Len(logs[r]) :
                 StampOf(rawLogs[r][i], logs[r][i].Timestamp, began[r], now)

\* The insert of a call adds no row or one row for each entry of the body,
\* in order, each with the timestamp of the body, or one between the
\* beginning of the call and now when the body had none.
C15_Step ==
    \A r \in Reqs :
        (rpc[r] = "insert" /\ rpc'[r] # "insert") =>
            \/ store' = store
            \/ /\ Len(NewRows) = Len(rawLogs[r])
               /\ \A i \in 1..Len(NewRows) :
                    /\ StampOf(rawLogs[r][i], NewRows[i].timestamp,
                               began[r], now)
                    /\ NewRows[i].message = rawLogs[r][i].Message

\* C15: an entry ingested with no timestamp (or the zero time) is stored
\* with a time between the beginning of the ingestion call and its end; an
\* entry ingested with a timestamp is stored with exactly that timestamp.
C15_TimestampDefault == [](C15_Inv) /\ [][C15_Step]_vars

\* A call that began at one instant stamped an entry at the next and stored
\* it beside an entry that had a timestamp, and has not returned an instant
\* later.
C15_Witness ==
    \E r \in Reqs :
        /\ rpc[r] = "broadcast" /\ Len(rawLogs[r]) = 2
        /\ rawLogs[r][1].Timestamp # 0 /\ rawLogs[r][2].Timestamp = 0
        /\ \E x, y \in Range(store) :
             /\ x.message = rawLogs[r][1].Message
             /\ x.timestamp = rawLogs[r][1].Timestamp
             /\ y.message = rawLogs[r][2].Message
             /\ began[r] < y.timestamp /\ y.timestamp < now

\* C16: whatever requests were made (accepted, refused by validation or by
\* the rate limiter, or failed by the store) and whatever sweeps ran, every
\* row of the store has a service, a level and a message that are not
\* blank, and a timestamp that is not the zero time.
C16_StoredValid ==
    \A x \in Range(store) :
        /\ ~Blank(x.service) /\ ~Blank(x.level) /\ ~Blank(x.message)
        /\ x.timestamp # 0

\* Rows are stored, one of them stamped by the handler, after a request
\* was refused by validation.
C16_Witness ==
    /\ \E x, y \in Range(store) : x.host = <<>> /\ y.host # <<>>
    /\ \E r \in Reqs : status[r] = 400 /\ warnLog[r] # NoText

\* A step of the retention sweeper or of a call of DB.DeleteOldLogs.
Deleting == nextSweep' # nextSweep \/ delFlip' # delFlip

\* A step leaves every row it does not remove as it was and where it was
\* among the others; a step that is no delete removes no row and adds rows
\* with new ids after the rows there were; a delete adds no row.
C17_Step ==
    /\ \A x \in Range(store), y \in Range(store') : y.id = x.id => y = x
    /\ \A i, j \in 1..Len(store) :
         (i < j /\ store[i] \in Range(store') /\ store[j] \in Range(store'))
            => \E a, b \in 1..Len(store') :
                  a < b /\ store'[a] = store[i] /\ store'[b] = store[j]
    /\ ~Deleting => /\ Len(store') >= Len(store)
                    /\ SubSeq(store', 1, Len(store)) = store
                    /\ \A k \in (Len(store) + 1)..Len(store') :
                         store'[k].id >= nextId
    /\ Deleting => Range(store') \subseteq Range(store)

\* C17: the rows of the store are only appended and never changed: only a
\* retention delete removes rows, and ingestion, queries and reads of the
\* filter options leave every row there was as it was.
C17_AppendOnly == [][C17_Step]_vars

\* Rows were added by a call of the store and by a request to a store that
\* had rows, after a delete removed a row and left another.
C17_Witness ==
    /\ Len(store) >= 2 /\ store[1].id > 1
    /\ \E r \in ServerReqs : added[r] = 2 /\ store[Len(store)].id = 3
    /\ qpc = "done" /\ fLast # NoCall

\* C18: getDistinctValues called with a column name that is not service,
\* level or host returns an error and no value and runs no query; called
\* with one of the three it runs its query and, the engine not failing,
\* returns no error.
C18_AllowList ==
    gRes.column # "" =>
        IF gRes.column \in {"service", "level", "host"}
        THEN gRes.queried /\ (gRes.err <=> gRes.fail)
        ELSE gRes.err /\ ~gRes.queried /\ gRes.values = <<>>

\* A call with a name of the allow-list returned values of a store with
\* rows.
C18_WitnessAllowed ==
    /\ gRes.column = "host" /\ ~gRes.err /\ gRes.values # <<>>
    /\ Len(store) >= 2

\* A call with a name that is a column of the table and not in the
\* allow-list was refused over a store with rows.
C18_Witness ==
    gRes.column = "message" /\ gRes.err /\ store # <<>>

\* A connection that was registered with the hub.
Subscriber(c) == rp[c] # "none"

\* The hub handles the unregister of c.
Unregistering(c) == rp[c] = "unregister" /\ rp'[c] = "done"

\* A subscriber is among the clients of the hub exactly when its send
\* channel is open, and no send channel was closed twice.
C19_Inv ==
    \A c \in Subs :
        /\ closes[c] <= 1
        /\ sendClosed[c] <=> closes[c] = 1
        /\ Subscriber(c) => (c \in hubClients <=> ~sendClosed[c])
        /\ ~Subscriber(c) => c \notin hubClients /\ ~sendClosed[c]

\* The unregister of a client the hub no longer has changes nothing of the
\* hub or of the channels; the unregister of a client it has removes that
\* client and closes its channel; and the hub puts a message only into a
\* channel that is open.
C19_Step ==
    \A c \in Subs :
        /\ (Unregistering(c) /\ c \notin hubClients) =>
              UNCHANGED <<hubVars, send, sendClosed, closes, wp, received>>
        /\ (Unregistering(c) /\ c \in hubClients) =>
              /\ hubClients' = hubClients \ {c}
              /\ closes'[c] = 1
              /\ \A d \in Subs \ {c} : closes'[d] = closes[d]
        /\ Len(send'[c]) > Len(send[c]) => ~sendClosed[c] /\ c \in hubClients

C20_Inv == nextSweep = now \/ nextSweep = now + SweepInterval

\* A sweep runs when its tick has come and not before, the next is due one
\* interval later whether it failed or not, and a failed sweep leaves the
\* store as it is.
C20_Step ==
    nextSweep' # nextSweep =>
        /\ now = nextSweep /\ now' = now
        /\ nextSweep' = nextSweep + SweepInterval
        /\ cleanupErr' => store' = store

\* Every sweep that is due within the time checked is run, also the one
\* after a sweep that failed.
C20_Live ==
    /\ <>(nextSweep = MaxTime + SweepInterval)
    /\ \A k \in BootTime..MaxTime :
         (cleanupErr /\ nextSweep = k) ~> (nextSweep = k + SweepInterval)

\* C20: the sweeper runs a sweep at the start and one after every interval
\* of 24 hours, for ever; a sweep that fails is not run again before the
\* next tick, and the sweeps after it run as they would have.
C20_SweepsForever == [](C20_Inv) /\ [][C20_Step]_vars /\ C20_Live

\* The last of the sweeps the time allows has failed and has left in the
\* store a row older than the retention period.
C20_Witness ==
    /\ cleanupErr /\ nextSweep = MaxTime + SweepInterval
    /\ nextSweep > BootTime + SweepInterval
    /\ \E x \in Range(store) : x.timestamp < now - RetentionTicks

\* ------------------------------------------------------------------ C21

\* The method a path is served under.
AllowedMethod(path) == IF path = "/api/ingest" THEN "POST" ELSE "GET"

\* A request comes in under a method its path is not served under.
WrongMethod(sv) == sv.path # "" /\ sv.method # AllowedMethod(sv.path)

\* Everything but the record of the request that came in.
C21_Rest ==
    <<now, reqVars, limVars, dbVars, nextSweep, hubVars, subVars, qVars,
      cacheVars, fVars, delVars, respVars, callVars, gRes>>

\* C21 as stated: a request to /api/ingest under a method other than POST,
\* or to /api/logs or /api/filters under a method other than GET, is
\* answered 405 and changes nothing.
C21_WrongMethod405 ==
    [][ served' # served /\ WrongMethod(served')
        => served'.status = 405 /\ UNCHANGED C21_Rest ]_vars

\* C21: a request under a method other than the one of its path and other
\* than OPTIONS is answered 405, an OPTIONS request is answered 204 by the
\* CORS middleware, and either changes nothing: no entry is persisted or
\* broadcast, no token is taken, neither the store nor the filter cache is
\* read or refreshed.
C21_WrongMethodRefused ==
    [][ served' # served /\ WrongMethod(served')
        => /\ served'.status = IF served'.method = "OPTIONS" THEN 204 ELSE 405
           /\ UNCHANGED C21_Rest ]_vars

\* A DELETE to /api/ingest was answered 405 beside a store that holds an
\* entry and a limiter that gave a token.
C21_Witness ==
    /\ served = [path |-> "/api/ingest", method |-> "DELETE", status |-> 405]
    /\ store # <<>>
    /\ \E ip \in IPs : limiters[ip] # NoLimiter

\* An OPTIONS request to /api/logs was answered 204.
C21_WitnessOptions ==
    served = [path |-> "/api/logs", method |-> "OPTIONS", status |-> 204]

\* ------------------------------------------------------------------ C22

\* The insert of request r returns an error in this step.
InsertFails(r) == rpc[r] = "insert" /\ rpc'[r] = "done"

\* A request answered 500 is over, added no row and submitted nothing.
C22_Inv ==
    \A r \in Reqs :
        status[r] = 500 =>
            rpc[r] = "done" /\ added[r] = 0 /\ submitted[r] = 0

\* The failing insert leaves the store and the hub's queue as they were
\* and answers 500.
C22_Step ==
    \A r \in Reqs :
        InsertFails(r) =>
            /\ status'[r] = 500
            /\ store' = store /\ nextId' = nextId
            /\ hubBroadcast' = hubBroadcast
            /\ added'[r] = 0 /\ submitted'[r] = 0

\* C22: when the store insert of an ingestion request fails (the single
\* insert, or any statement or the commit of a batch), no entry of that
\* request is in the store afterwards, nothing is submitted to the hub and
\* the caller receives 500.
C22_InsertFailure == [](C22_Inv) /\ [][C22_Step]_vars

\* A single insert failed beside a store that holds the rows of a batch
\* another request stored and broadcast.
C22_Witness ==
    \E r, q \in Reqs :
        /\ status[r] = 500 /\ Len(logs[r]) = 1
        /\ status[q] = 201 /\ added[q] = 2 /\ submitted[q] = 1
        /\ Len(store) = 2

\* ------------------------------------------------------------------ C23

\* C23: an entry ingested, singly or in a batch, with the metadata object
\* m is returned by a later query with metadata equal to m, nested objects
\* included; an entry ingested without metadata and one ingested with the
\* empty object are both returned without metadata.
C23_MetadataRoundTrip ==
    \A i \in 1..Len(meta.out) :
        IF meta.sent[i] \in {JAbsent, JObj(<<>>)}
        THEN meta.out[i] = JAbsent
        ELSE meta.sent[i].t = "obj" => meta.out[i] = meta.sent[i]

\* ------------------------------------------------------------------ C24

\* The texts that are a part of s.
SubTexts(s) == { SubSeq(s, i, j) : i \in 1..(Len(s) + 1), j \in 0..Len(s) }

\* t is the text a without the white space around it.
TrimmedOf(a, t) ==
    \E i, j \in 0..Len(a) :
        /\ i + j <= Len(a)
        /\ t = SubSeq(a, i + 1, Len(a) - j)
        /\ \A k \in 1..i : a[k] \in Whitespace
        /\ \A k \in (Len(a) - j + 1)..Len(a) : a[k] \in Whitespace
        /\ t # <<>> => t[1] \notin Whitespace /\ t[Len(t)] \notin Whitespace

\* a is the first of the comma-separated items of x.
FirstItemOf(x, a) ==
    /\ \A k \in 1..Len(a) : a[k] # ","
    /\ \/ x = a
       \/ Len(x) > Len(a) /\ SubSeq(x, 1, Len(a) + 1) = a \o <<",">>

\* addr is host, a colon and a port, the host without colons or in
\* brackets, the port without colons or brackets.
HostPortOf(addr, host) ==
    \E n \in 1..Len(addr) :
        LET h == SubSeq(addr, 1, n - 1)
            port == SubSeq(addr, n + 1, Len(addr))
        IN /\ addr[n] = ":"
           /\ \A k \in 1..Len(port) : port[k] \notin {":", "[", "]"}
           /\ \/ h = host /\ \A k \in 1..Len(h) : h[k] \notin {":", "[", "]"}
              \/ /\ h = <<"[">> \o host \o <<"]">>
                 /\ \A k \in 1..Len(host) : host[k] \notin {"[", "]"}

\* C24: getClientIP never fails and returns the first comma-separated
\* address of X-Forwarded-For, trimmed, when the header is not empty;
\* otherwise the host part of the connection address; and the connection
\* address itself when it has no port.
C24_ClientIP ==
    ipCall.called =>
        /\ ipCall.ip \in Seq(STRING)
        /\ ipCall.xff # <<>> =>
              \E a \in SubTexts(ipCall.xff) :
                  FirstItemOf(ipCall.xff, a) /\ TrimmedOf(a, ipCall.ip)
        /\ ipCall.xff = <<>> =>
              /\ \A h \in SubTexts(ipCall.addr) :
                    HostPortOf(ipCall.addr, h) => ipCall.ip = h
              /\ (\A k \in 1..Len(ipCall.addr) : ipCall.addr[k] # ":")
                    => ipCall.ip = ipCall.addr

\* The header " 1,2" gave "1".
C24_Witness ==
    /\ ipCall.called
    /\ ipCall.xff = <<" ", "1", ",">> /\ ipCall.ip = <<"1">>

\* The connection address [::1]:80 gave ::1.
C24_WitnessHost ==
    /\ ipCall.called /\ ipCall.xff = <<>>
    /\ ipCall.addr = <<"[", ":", ":", "1", "]", ":", "8", "0">>
    /\ ipCall.ip = <<":", ":", "1">>

\* ------------------------------------------------------------------ C25

\* C25: a store call made with a context that is already cancelled
\* returns an error and has no effect: InsertLog inserts nothing and
\* QueryLogs returns no entries.
C25_CancelledContext ==
    [][ ctxCall' # ctxCall /\ ctxCall'.done
        => /\ ctxCall'.err
           /\ store' = store /\ nextId' = nextId
           /\ ctxCall'.logs = <<>> ]_vars

\* InsertLog with a cancelled context returned an error beside a store of
\* two rows.
C25_Witness ==
    /\ ctxCall.op = "InsertLog" /\ ctxCall.done /\ ctxCall.err
    /\ Len(store) = 2

\* QueryLogs with a cancelled context returned an error and no entry over
\* a store that has rows.
C25_WitnessQuery ==
    /\ ctxCall.op = "QueryLogs" /\ ctxCall.done /\ ctxCall.err
    /\ ctxCall.logs = <<>> /\ store # <<>>

\* ------------------------------------------------------------------ C26

\* A limit parameter that is an integer: digits after an optional sign.
IntegerLiteral(s) ==
    \E k \in 0..1 :
        /\ Len(s) > k
        /\ k = 1 => s[1] \in {"+", "-"}
        /\ \A i \in (k + 1)..Len(s) : s[i] \in Digits

\* A start or end parameter that is not an RFC3339 timestamp.
BadTime(p) == p # <<>> /\ ~p[1].ok

\* Both start and end are timestamps.
BothTimes(p) ==
    /\ p.start # <<>> /\ p.start[1].ok
    /\ p.end # <<>> /\ p.end[1].ok

\* The parameters of a request the claim has refused.
Refused(p) ==
    \/ p.limit # <<>> /\ (~IntegerLiteral(p.limit) \/ NegativeLiteral(p.limit))
    \/ BadTime(p.start)
    \/ BadTime(p.end)
    \/ BothTimes(p) /\ p.start[1].t > p.end[1].t

\* C26: GET /api/logs with a limit that is not an integer or is negative,
\* with a start or end that is not an RFC3339 timestamp, or with start
\* after end, is answered 400 without the store being queried and returns
\* no entries; start equal to end is accepted and queried.
C26_BadParameters ==
    (qpc = "done" /\ qKind = "http") =>
        /\ Refused(qParams) => qStatus = 400 /\ ~qRan /\ qResult = <<>>
        /\ (~Refused(qParams) /\ BothTimes(qParams)
              /\ qParams.start[1].t = qParams.end[1].t)
             => /\ qStatus = 200 /\ qRan
                /\ qFilter.StartTime = <<qParams.start[1].t>>
                /\ qFilter.EndTime = qFilter.StartTime
                /\ qResult \in QueryLogs(store, qFilter)

\* A request with start after end was answered 400 over a store that has
\* rows.
C26_Witness ==
    /\ qpc = "done" /\ qKind = "http" /\ qStatus = 400 /\ ~qRan
    /\ qParams.limit = <<>> /\ BothTimes(qParams)
    /\ qParams.start[1].t > qParams.end[1].t
    /\ store # <<>>

\* A request with start equal to end returned the rows of that instant.
C26_WitnessEqual ==
    /\ qpc = "done" /\ qKind = "http" /\ qStatus = 200 /\ qRan
    /\ BothTimes(qParams) /\ qParams.start = qParams.end
    /\ Len(qResult) = 2

\* ------------------------------------------------------------------ C27

\* A limiter belongs to the identity of the request that made it: the map
\* holds it under that identity and only requests of that identity hold
\* it.
C27_Inv ==
    /\ \A ip \in IPs :
         limiters[ip] # NoLimiter => rip[limiters[ip]] = ip
    /\ \A r \in Reqs :
         (rlim[r] # NoLimiter /\ rpc[r] # "idle") => rip[rlim[r]] = rip[r]

\* While the clock stands, the tokens of a limiter change only in a step
\* of a request of its identity, and a request is denied only after Burst
\* requests of its own identity were admitted.
C27_Step ==
    /\ \A l \in Reqs :
         (now' = now /\ tokens'[l] # tokens[l])
            => \E r \in Reqs : rpc'[r] # rpc[r] /\ rip[r] = rip[l]
    /\ \A r \in Reqs :
         (rpc[r] = "allow" /\ status'[r] = 429)
            => admitted[rip[r]] >= Burst

\* C27: the buckets are per identity and independent: an identity seen
\* for the first time gets a bucket with the full burst whatever the other
\* identities have consumed, and the requests of one identity never change
\* the outcome of a request of another.
C27_PerIdentity == [](C27_Inv) /\ [][C27_Step]_vars

\* Two identities were each admitted at the same instant, each by its own
\* limiter, after the first had emptied its bucket.
C27_Witness ==
    \E r, q \in Reqs :
        /\ rip[r] # rip[q]
        /\ rlim[r] # NoLimiter /\ rlim[q] # NoLimiter /\ rlim[r] # rlim[q]
        /\ tokens[rlim[r]] = 0 /\ tokens[rlim[q]] = 0
        /\ admitted[rip[r]] = Burst /\ admitted[rip[q]] = Burst
        /\ status[r] = 201 /\ status[q] = 201

\* ------------------------------------------------------------------ C28

\* The refresh of c writes the cache in this step, after another refresh
\* that ran beside it wrote the cache and returned.
SecondWriter(c) ==
    /\ fpc[c] = "update" /\ fpc'[c] = "idle"
    /\ fOver[c]
    /\ fLast.who \notin {"none", c} /\ ~fLast.hit /\ ~fLast.err

\* C28 as stated: refreshes that run concurrently all compute the same
\* snapshot, so the snapshot the cache retains is the same whichever of
\* them writes last, for every interleaving with inserts and sweeps.
C28_SameSnapshot ==
    [][ \A c \in Callers :
          SecondWriter(c) =>
              /\ fOpts[c] = fLast.result
              /\ cacheOptions' = cacheOptions ]_vars

\* C28: refreshes that run concurrently while no insert and no sweep
\* changes the store compute the same snapshot, and the cache retains that
\* snapshot whichever of them writes last.
C28_SameSnapshotQuiet ==
    [][ \A c \in Callers :
          (SecondWriter(c) /\ fLast.quiet /\ Quiet(c)) =>
              /\ fOpts[c] = fLast.result
              /\ cacheOptions' = cacheOptions
              /\ cacheOptions' = fLast.result ]_vars

\* Two refreshes ran side by side over a store that has rows and kept the
\* same snapshot of it in the cache.
C28_Witness ==
    /\ fLast.who # "none" /\ fLast.over /\ fLast.quiet
    /\ ~fLast.hit /\ ~fLast.err
    /\ cacheOptions = fLast.result
    /\ cacheOptions = DistinctOf(store)
    /\ store # <<>>
    /\ \A c \in Callers : fpc[c] = "idle"

\* ------------------------------------------------------------------ C29

\* C29: on graceful shutdown, every ingestion request whose store write is
\* in flight when the shutdown begins has been answered before the store
\* is closed and the process exits (no time passes, so the grace period is
\* not over), and the broadcasts handed to the hub by then have been taken
\* up by it.
C29_GracefulShutdown ==
    /\ proc.closed =>
         \A r \in proc.writing : rpc[r] = "done"
    /\ proc.exited =>
         (proc.queued = <<>> \/ hubBroadcast # proc.queued)

\* ------------------------------------------------------------------ C30

\* C30: among the rows of a result that have equal timestamps, the rows
\* are in insertion order, the order of their ids.
C30_TiesByInsertion ==
    (qpc = "done" /\ qStatus = 200) =>
        \A i \in 1..(Len(qResult) - 1) :
            qResult[i].timestamp = qResult[i + 1].timestamp
                => qResult[i].id < qResult[i + 1].id

\* --------------------------------------------------------------- C31
\* The rows of the store that pass every predicate of f but the search.
PassesOthers(row, f) ==
    Satisfies(row, [f EXCEPT !.Search = <<>>])

\* C31 (as claimed): for every non-empty search text, whatever characters
\* it holds, a query returns only rows whose message contains the text as
\* a literal substring (letters compared without regard to case), and all
\* of those rows when they are no more than the limit.
C31_SearchLiteral ==
    (qpc = "done" /\ qStatus = 200 /\ qFilter.Search # <<>>) =>
        LET hits == {r \in Range(store) :
                        /\ PassesOthers(r, qFilter)
                        /\ ContainsFold(r.message, qFilter.Search)}
        IN /\ \A r \in Range(qResult) :
                ContainsFold(r.message, qFilter.Search)
           /\ Cardinality(hits) <= EffectiveLimit(qFilter.Limit) =>
                hits \subseteq Range(qResult)

\* ------------------------------------------------------------------ C32

\* Every id in the store was assigned by the engine.
C32_Inv == \A x \in Range(store) : 0 < x.id /\ x.id < nextId

\* A step gives every row it adds an id that was not assigned before; the
\* entries a handler holds after its insert carry the ids of the rows the
\* insert added, and the message the handler submits carries them.
C32_Step ==
    /\ nextId' >= nextId
    /\ \A y \in Range(store') \ Range(store) :
         nextId <= y.id /\ y.id < nextId'
    /\ \A r \in Reqs :
         /\ (rpc[r] = "insert" /\ rpc'[r] = "broadcast")
              => \A k \in 1..Len(logs[r]) :
                    logs'[r][k].ID = store'[Len(store) + k].id
         /\ (rpc[r] = "broadcast" /\ rpc'[r] = "done")
              => LET m == hubBroadcast'[Len(hubBroadcast')]
                 IN \A k \in 1..Len(m) : m[k].id = logs[r][k].ID

\* C32 (as claimed): the id of a stored entry is assigned by the engine
\* and is larger than every id assigned before, also after a retention
\* delete, whatever id the payload has; the entry pushed to subscribers
\* for the request carries the id the engine assigned.
C32_EngineAssignedId == [](C32_Inv) /\ [][C32_Step]_vars

\* ------------------------------------------------------------------ C33

\* The read deadline of the registered connection c passes, or has passed,
\* with no pong: the peer left a ping unanswered.
Inactive(c) ==
    /\ rp[c] = "reading"
    /\ hb[c].missed \/ hb[c].age >= hb[c].deadline

\* c was torn down and is not in the live set.
Removed(c) == rp[c] = "done" /\ c \notin hubClients

\* C33 (as claimed): a connection with no pong within the read deadline
\* is eventually torn down and removed from the live set; a connection
\* whose peer answers every ping is never torn down by the read deadline.
C33_Heartbeat ==
    /\ \A c \in Subs : Inactive(c) ~> Removed(c)
    /\ [](\A c \in Subs : ~hb[c].missed => ~hb[c].timedOut)

\* C33 (amended): a connection with no pong within the read deadline is
\* eventually torn down and removed from the live set; a connection whose
\* peer answers every ping, the pong arriving less than pongWait minus
\* pingPeriod after the tick of the ping, is never torn down by the read
\* deadline.
C33_HeartbeatPrompt ==
    /\ \A c \in Subs : Inactive(c) ~> Removed(c)
    /\ [](\A c \in Subs :
            (~hb[c].missed /\ ~hb[c].slow) => ~hb[c].timedOut)

\* C33 witness: one connection was torn down by the read deadline and
\* removed after an unanswered ping, the other has answered two pings in
\* time and is registered.
C33_Witness ==
    \E c, d \in Subs :
        /\ hb[c].missed /\ hb[c].timedOut /\ Removed(c)
        /\ hb[d].pings = 2 /\ hb[d].pongs = {}
        /\ ~hb[d].missed /\ ~hb[d].slow
        /\ rp[d] = "reading" /\ d \in hubClients
        /\ hb[d].deadline = ReadDeadline(2 * PingPeriod)

\* ------------------------------------------------------------------ C34

\* C34: the messages placed on the send queue of a connection are the
\* broadcasts the hub received after it registered the connection, one
\* after the other with none left out, repeated or out of order, each with
\* the message of its broadcast; while the connection is in the live set
\* they reach up to the last broadcast whose range loop has visited it.
C34_ContiguousRun ==
    trace.on =>
        \A c \in Subs :
            LET e == trace.enq[c]
            IN /\ \A k \in 1..Len(e) :
                    /\ e[k].i = trace.reg[c] + k
                    /\ e[k].m = trace.msgs[e[k].i]
               /\ c \in hubClients =>
                    trace.reg[c] + Len(e) =
                        IF c \in hubTodo THEN trace.n - 1 ELSE trace.n

\* C34 witness: a connection registered after the first broadcast was
\* placed the second and the third, and is in the live set; the other was
\* evicted at the second after it was placed the first.
C34_Witness ==
    \E c, d \in Subs :
        /\ trace.n = 3 /\ hubPc = "select"
        /\ trace.reg[c] = 1 /\ Len(trace.enq[c]) = 2 /\ c \in hubClients
        /\ trace.reg[d] = 0 /\ Len(trace.enq[d]) = 1 /\ d \notin hubClients
        /\ sendClosed[d] /\ rp[d] = "reading"

\* ------------------------------------------------------------------ C35

\* A request answered 201 has submitted one message, and has persisted
\* nothing when it had no entries; a request answered 429, 400 or 500 and
\* a request not answered yet have submitted none.
C35_Inv ==
    \A r \in Reqs :
        /\ status[r] = 201
             => submitted[r] = 1 /\ (logs[r] = <<>> => added[r] = 0)
        /\ status[r] # 201 => submitted[r] = 0
        /\ status[r] \in {0, 201, 400, 429, 500}

\* A message comes to the hub only from a request that is answered 201 in
\* that step, one message for it; a request refused for its method leaves
\* the hub's channel and every request as they were.
C35_Step ==
    /\ Len(hubBroadcast') > Len(hubBroadcast)
         => \E r \in Reqs :
                  /\ status[r] = 0 /\ status'[r] = 201
                  /\ hubBroadcast' = Append(hubBroadcast, Marshal(logs[r]))
                  /\ \A q \in Reqs \ {r} : status'[q] = status[q]
    /\ (served' # served /\ served'.status = 405)
         => UNCHANGED <<hubBroadcast, reqVars>>

\* C35: each ingestion request answered 201 submits exactly one message to
\* the hub, also when it decodes to no entries, and then persists nothing;
\* a request answered 405, 429, 400 or 500 submits none.
C35_OneMessage == [](C35_Inv) /\ [][C35_Step]_vars

\* C35 witness: the request with the empty array was answered 201 and its
\* message, an empty array, is in the hub's channel with nothing stored;
\* the other request was refused with 429, after a request under PUT.
C35_Witness ==
    \E r, q \in Reqs :
        /\ status[r] = 201 /\ logs[r] = <<>> /\ submitted[r] = 1
        /\ hubBroadcast = << <<>> >> /\ store = <<>>
        /\ status[q] = 429 /\ submitted[q] = 0
        /\ served = [path |-> "/api/ingest", method |-> "PUT", status |-> 405]

\* ------------------------------------------------------------------ C36

\* The distinct values of the three columns of a set of rows.
SnapshotOf(S) ==
    MkOptions(
        Take(OrderByText({r.service : r \in S}), DistinctLimit),
        Take(OrderByText({r.level : r \in S}), DistinctLimit),
        Take(OrderByText({r.host : r \in S}), DistinctLimit))

\* The refresh of c writes the cache and returns in this step.
Refreshed(c) == fpc[c] = "update" /\ fpc'[c] = "idle"

\* C36 (as claimed): the snapshot a refresh returns is the distinct
\* values of one single state of the store, some set of the rows that were
\* committed, also when an insert or a sweep commits between its reads.
C36_SingleState ==
    [][ \A c \in Callers :
          Refreshed(c) =>
              \E S \in SUBSET committed : fLast'.result = SnapshotOf(S) ]_vars

\* C36 (amended): each list of a refresh is the distinct values of its
\* column in the store at the moment the list is read; the snapshot of a
\* refresh during which no insert and no sweep committed is the distinct
\* values of the store as it is then, and that snapshot is what the cache
\* holds.
C36_ListsAsRead ==
    [][ \A c \in Callers :
          /\ (fpc[c] \in AllowedFilterColumns /\ fpc'[c] = NextColumn(fpc[c]))
               => fOpts'[c] =
                    SetOption(fOpts[c], fpc[c],
                              getDistinctValues(store, fpc[c], FALSE).values)
          /\ (Refreshed(c) /\ Quiet(c))
               => /\ fLast'.result = DistinctOf(store)
                  /\ cacheOptions' = DistinctOf(store) ]_vars

\* C36 witness: a refresh that ran alone over a store with a row, which
\* did not change meanwhile, returned the distinct values of that store
\* after its three reads.
C36_Witness ==
    /\ fLast.who # "none" /\ ~fLast.hit /\ ~fLast.err /\ ~fLast.over
    /\ fLast.quiet /\ fLast.reads = 3
    /\ store # <<>>
    /\ fLast.result = DistinctOf(store)
    /\ fLast.result.hosts # <<>>

\* A refresh returned a snapshot that no state of the store ever had: a
\* row was inserted between its reads.
C36_WitnessMixed ==
    /\ fLast.who # "none" /\ ~fLast.hit /\ ~fLast.err /\ ~fLast.quiet
    /\ fLast.result.services = <<>> /\ fLast.result.levels # <<>>

\* ------------------------------------------------------------------ C37

\* A read of the refresh of c fails in this step.
ReadFails(c) == fpc[c] \in AllowedFilterColumns /\ fpc'[c] = "idle"

\* A call that returned an error had missed the cache.
C37_Inv ==
    fLast.err => (~fLast.hit /\ fLast.at >= fLast.expSeen)

\* A refresh whose read fails returns the error and leaves the cached
\* snapshot and its expiry as they were; the call that comes next, the
\* cache being as the failed call saw it, is not served from the cache.
C37_Step ==
    /\ \A c \in Callers :
         ReadFails(c) =>
             /\ fLast'.who = c /\ fLast'.err /\ ~fLast'.hit
             /\ UNCHANGED <<cacheOptions, cacheExpires, store>>
    /\ (fLast.err /\ cacheExpires = fLast.expSeen /\ fLast' # fLast)
         => ~fLast'.hit

\* C37: if one of the three reads of a refresh fails, GetFilterOptions
\* returns the error and leaves the cached snapshot and its expiry as they
\* were, and the next call reads the store again: no partial snapshot is
\* served.
C37_FailedRefresh == [](C37_Inv) /\ [][C37_Step]_vars

\* C37 witness: the refresh failed at its second read, after it had read
\* the services of a store with a row; the cache holds no snapshot, and the
\* call that came next is reading the store.
C37_Witness ==
    /\ fLast.err /\ fLast.result.services # <<>> /\ fLast.result.levels = <<>>
    /\ cacheOptions = NoOptions /\ cacheExpires = 0
    /\ store # <<>>
    /\ \E c \in CacheCallers : fpc[c] = "level" /\ fAt[c] >= fLast.doneAt

\* ------------------------------------------------------------------ C38

\* The timestamp ts is before the retention window at the instant t: a
\* sweep at t deletes the rows that have it.
BeforeWindow(ts, t) == ts < t - RetentionTicks

\* No request is refused for what it holds.
C38_Inv == \A r \in ServerReqs : status[r] # 400

\* A request whose entries have their three fields goes on to the insert,
\* the insert adds a row for each entry, and the message handed to the
\* hub holds each entry, whatever the timestamps; a step that is no sweep
\* removes no row; a query with no predicate returns every row when they
\* are no more than the limit.
C38_Step ==
    /\ \A r \in ServerReqs :
         /\ (rpc[r] = "decode" /\ rpc'[r] # "decode" /\ logs'[r] # <<>>
               /\ \A k \in 1..Len(logs'[r]) : validateLog(logs'[r][k]) = "")
              => rpc'[r] = "insert"
         /\ (rpc[r] = "insert" /\ rpc'[r] = "broadcast")
              => store' = store \o [k \in 1..Len(logs[r]) |->
                                      Row(nextId + k - 1, logs[r][k])]
         /\ (rpc[r] = "broadcast" /\ rpc'[r] = "done")
              => /\ status'[r] = 201
                 /\ hubBroadcast' = Append(hubBroadcast, Marshal(logs[r]))
    /\ nextSweep' = nextSweep => Range(store) \subseteq Range(store')
    /\ (qpc = "idle" /\ qpc' = "done" /\ qFilter' \in RetentionFilters
          /\ Len(store) <= DefaultLimit)
         => Range(qResult') = Range(store)

\* C38: ingestion does not look at the retention window: an entry whose
\* timestamp is already before it is accepted, persisted and broadcast
\* like any other, and stays in the store and in the results of queries
\* until a sweep deletes it.
C38_OldEntryAccepted == [](C38_Inv) /\ [][C38_Step]_vars

\* C38 witness: after the sweep of this instant a request was answered
\* 201 for an entry whose timestamp that sweep would have deleted; the
\* entry is in the store, in the result of a query and in the message of
\* the hub's channel.
C38_Witness ==
    \E r \in ServerReqs :
        /\ status[r] = 201 /\ added[r] = 1
        /\ nextSweep = now + SweepInterval
        /\ Len(store) = 1 /\ BeforeWindow(store[1].timestamp, now)
        /\ qpc = "done" /\ qResult = store
        /\ hubBroadcast = <<Marshal(logs[r])>>
        /\ BeforeWindow(logs[r][1].Timestamp, now)

\* ------------------------------------------------------------------ C39

\* The hub has work: a message in its channel, a range loop under way, a
\* handler at the send on wsHub.register or a read pump at the send on
\* wsHub.unregister.
HubBusy ==
    \/ hubBroadcast # <<>>
    \/ hubPc = "deliver"
    \/ \E c \in Subs : rp[c] \in {"register", "unregister"}

\* C39: the hub never waits for a subscriber and nothing waits for the hub
\* for ever: a range loop is left, a handler at the send on wsHub.register
\* is registered, a read pump at the send on wsHub.unregister is let go, a
\* handler at the send on wsHub.broadcast is answered and its message is
\* taken, whatever the pumps and the peers do, also for a connection that
\* is evicted while its read pump is at the send on wsHub.unregister.
C39_CoordinatorLive ==
    /\ hubPc = "deliver" ~> hubPc = "select"
    /\ \A c \in Subs : rp[c] = "register" ~> rp[c] # "register"
    /\ \A c \in Subs : rp[c] = "unregister" ~> rp[c] = "done"
    /\ \A r \in Reqs : rpc[r] = "broadcast" ~> rpc[r] = "done"
    /\ HubBusy ~> ~HubBusy

\* C39 witness: a connection was evicted for a full queue while its read
\* pump was at the send on wsHub.unregister, and the hub has since let the
\* read pump go; both requests were answered 201 and the hub has no work.
C39_Witness ==
    \E c \in Subs :
        /\ c \in trace.late
        /\ rp[c] = "done" /\ closes[c] = 1 /\ c \notin hubClients
        /\ \A r \in Reqs : status[r] = 201
        /\ ~HubBusy

====
